---- MODULE Spec2Model ----
(***************************************************************************)
(* A model of the event-driven scheduling core of GreedyMaxScheduler:      *)
(*   - NightlyTimeline (scheduler/core/eventsqueue/nightchanges.py): the   *)
(*     timeline entries of one (night, site) and get_final_plan;           *)
(*   - Collector.time_accounting                                           *)
(*     (scheduler/core/components/collector/collector.py).                 *)
(*   - StandardRunner (scheduler/process_manager/runner.py): the pool of   *)
(*     jobs of the process manager.                                        *)
(* Times are integers: a time slot index is a natural number, a duration   *)
(* is a number of ticks, and a time slot is SlotLen ticks long.            *)
(*   - the events of a night and Event.to_timeslot_idx                     *)
(*     (scheduler/core/eventsqueue/events.py);                             *)
(*   - Collector._process_timing_windows and _calculate_target_info with   *)
(*     the TargetInfo cache.                                               *)
(*   - Collector.load_programs and the getters of the Collector;           *)
(*   - ValidationBuilder.reset_collector_observations                      *)
(*     (scheduler/core/builder/builder.py);                                *)
(*   - the default Ranker (components/ranker/__init__.py): _score_obs,     *)
(*     score_and_group, the metric of _metric_slope and the default score  *)
(*     combiner;                                                           *)
(*   - DummyOptimizer (scheduler/core/components/optimizer/dummy.py);      *)
(*   - NightlyTimeline.add, get_final_plan and to_json over the nights and *)
(*     sites of the timeline.                                              *)
(* Each specification exercises one component and leaves the variables of  *)
(* the others at their initial values.                                     *)
(***************************************************************************)
EXTENDS Integers, Sequences, FiniteSets, TLC

VARIABLES
    timeline,      \* NightlyTimeline.timeline[night_idx][site]: the list of TimelineEntry
    final_plan,    \* the value returned by the last call, when it was get_final_plan
    called_on,     \* the entries that call was made on, as they were before it
    observations,  \* Collector._observations: each Observation with its atoms
    last_call,     \* the arguments of the time_accounting call made, and the
                   \* observations as they were before it
    visit_log,     \* for each visit accounted, in order, what lines 685-691 did
    max_jobs,      \* StandardRunner.max_jobs
    jobs,          \* StandardRunner.jobs: the Job.sequence of each Job, in list order
    job_counter,   \* the next value of the module's job_counter
    tasks,         \* the ProcessTask of each Job started, by Job.sequence
    last_op,       \* the last StandardRunner method called and what it did
    event_queue,   \* the events of the (night, site) still to be processed
    ev_night,      \* the night of the queue: its evening twilight (in ticks) and
                   \* the length of a time slot
    ev_pc,         \* "loading" while events are added, "processing" afterwards
    redis,         \* the TargetInfo cache (redis_client): for each key, the payload
                   \* set, if any
    local_tz,      \* the UTC offset of the local time zone of the process, in ticks
    ti_call,       \* the last call of _calculate_target_info: its Collector, the
                   \* timing windows, the map returned, the nights read from the cache
    ti_calls,      \* the number of calls made
    workers,       \* the workers running _calculate_target_info side by side
    programs,      \* Collector._programs: the Program stored for each ProgramID
    observations_per_program,  \* Collector._observations_per_program
    target_info,   \* Collector._target_info: the keys (target name, observation
                   \* id) with the program the target info was calculated for
    last_load,     \* the last call of load_programs: its Collector, its data, the
                   \* number of parse failures and the class state before it
    ingested,      \* the json programs read so far, over all the calls
    resets,        \* the calls of reset_collector_observations since the last
                   \* time accounting, and the observations before them
    ranker,        \* the Ranker built last: its inputs and its scores
    optimizer      \* the DummyOptimizer: its groups, the Plans of the night it fills
                   \* and what the last call of add did

tl_vars == <<timeline, final_plan, called_on>>

ta_vars == <<observations, last_call, visit_log>>

rn_vars == <<max_jobs, jobs, job_counter, tasks, last_op>>

ev_vars == <<event_queue, ev_night, ev_pc>>

ti_vars == <<redis, local_tz, ti_call, ti_calls, workers>>

cl_vars == <<programs, observations_per_program, target_info, last_load, ingested>>

vb_vars == <<resets>>

rk_vars == <<ranker>>

op_vars == <<optimizer>>

vars == <<timeline, final_plan, called_on, observations, last_call, visit_log,
          max_jobs, jobs, job_counter, tasks, last_op,
          event_queue, ev_night, ev_pc,
          redis, local_tz, ti_call, ti_calls, workers,
          programs, observations_per_program, target_info, last_load, ingested,
          resets, ranker, optimizer>>

----------------------------------------------------------------------------
(* Bounds of the timeline model. *)

\* Number of time slots of the night.
NumSlots == 2

\* Largest number of timeline entries of the (night, site).
MaxEntries == 3

\* Largest number of visits of a generated plan.
MaxVisits == 2

----------------------------------------------------------------------------
(* Sequence helpers (Python list operations). *)

\* reversed(s)
Reverse(s) == [i \in 1..Len(s) |-> s[Len(s) + 1 - i]]

----------------------------------------------------------------------------
(* Plans and visits of the timeline. A visit keeps the index of the entry  *)
(* whose plan it was generated for (the identity of the Visit object).     *)

\* plan_generated = None
NoPlan == [gen |-> FALSE, visits |-> <<>>]

\* A Plan with the given visits.
PlanOf(vs) == [gen |-> TRUE, visits |-> vs]

VisitEnd(v) == v.start_time_slot + v.time_slots

\* Visits are ordered by start_time_slot and no two overlap.
SortedNoOverlap(vs) ==
    \A i \in 1..Len(vs) : \A j \in 1..Len(vs) :
        i < j => VisitEnd(vs[i]) <= vs[j].start_time_slot

\* The visits an optimizer may place when it plans the remaining window
\* [s, NumSlots) of the night.
WindowVisits(s) ==
    { [start_time_slot |-> a, time_slots |-> n] :
        a \in s..(NumSlots - 1), n \in 1..NumSlots }

\* For each time slot s, the lists of visits of the plans that can be
\* generated at s: visits of at least one slot, inside the remaining window,
\* sorted and without overlap.
GeneratedVisits ==
    [s \in 0..NumSlots |->
        { q \in UNION { [1..n -> WindowVisits(s)] : n \in 0..MaxVisits } :
            /\ SortedNoOverlap(q)
            /\ \A i \in 1..Len(q) : VisitEnd(q[i]) <= NumSlots }]

\* The Visit objects of the plan generated for the entry with index e.
VisitsOfEntry(e, q) ==
    [i \in 1..Len(q) |->
        [entry |-> e, start_time_slot |-> q[i].start_time_slot,
         time_slots |-> q[i].time_slots]]

----------------------------------------------------------------------------
(* NightlyTimeline.get_final_plan *)

\* Plan.get_slice(stop = t): the visits up to and including time slot t.
GetSlice(visits, t) ==
    LET UpTo(v) == v.start_time_slot <= t
    IN  SelectSeq(visits, UpTo)

\* Lines 78-83: the last visit of the slice, cut at t when t falls inside it.
CutLast(partial, t) ==
    IF partial = <<>> THEN partial
    ELSE LET last == partial[Len(partial)]
         IN  IF last.start_time_slot <= t /\ t < VisitEnd(last)
             THEN [partial EXCEPT ![Len(partial)].time_slots = t - last.start_time_slot]
             ELSE partial

\* Lines 67-85: the partial plan an entry contributes when the walk holds t.
PartialPlan(visits, t) ==
    IF t > 0 THEN CutLast(GetSlice(visits, t), t) ELSE visits

\* Lines 88-89: the value of t after an entry has been processed.
NextT(t, entry) ==
    IF t < entry.start_time_slot THEN entry.start_time_slot ELSE t

\* Line 83 assigns to the Visit object held by the entry's own plan: the
\* visits of the entry's plan after the walk has processed it.
VisitsAfterCut(visits, t) ==
    IF t > 0
    THEN LET partial == CutLast(GetSlice(visits, t), t)
         IN  [i \in 1..Len(visits) |->
                IF i <= Len(partial) THEN partial[i] ELSE visits[i]]
    ELSE visits

\* The indices of all the entries, latest first.
RelevantEntries_All(entries) == Reverse([i \in 1..Len(entries) |-> i])

\* Line 61: the indices of the entries with a plan, latest first.
RelevantEntries(entries) ==
    LET HasPlan(i) == entries[i].plan_generated.gen
    IN  SelectSeq(Reverse([i \in 1..Len(entries) |-> i]), HasPlan)

\* Lines 65-89: the loop over the relevant entries. rel is the list of the
\* indices still to process, t the slot held, acc the list all_generated.
RECURSIVE FinalWalk(_, _, _, _)
FinalWalk(entries, rel, t, acc) ==
    IF rel = <<>> THEN [all_generated |-> acc, entries |-> entries]
    ELSE LET i       == Head(rel)
             entry   == entries[i]
             pg      == entry.plan_generated
             partial == PartialPlan(pg.visits, t)
             NonZero(v) == v.time_slots # 0
             after   == [entries EXCEPT
                            ![i].plan_generated.visits = VisitsAfterCut(pg.visits, t)]
         IN  FinalWalk(after, Tail(rel), NextT(t, entry),
                       acc \o SelectSeq(Reverse(partial), NonZero))

\* get_final_plan for the (night, site) of the model: the plan returned and
\* the entries afterwards.
GetFinalPlanOf(entries) ==
    LET rel == RelevantEntries(entries)
    IN  IF rel = <<>>
        THEN [result |-> [kind |-> "None", visits |-> <<>>], entries |-> entries]
        ELSE LET w == FinalWalk(entries, rel, 0, <<>>)
             IN  [result  |-> [kind |-> "Plan", visits |-> Reverse(w.all_generated)],
                  entries |-> w.entries]

----------------------------------------------------------------------------
(* The programs of the time accounting model: four observations in three   *)
(* top-level groups of one program per site.                               *)

Sites == {"GN", "GS"}

ObsIds == {"o1", "o2", "o3", "o4"}

\* time_slot_length in ticks (a tick is half a minute).
SlotLen == 2

\* Largest end timeslot bound given to time_accounting.
MaxBound == 8

\* program.root_group.children: G1 is a scheduling group (its children are
\* the observation groups of o1 and o2), G3 and G4 are observation groups.
Groups ==
    { [id |-> "G1", scheduling |-> TRUE,  obs |-> <<"o1", "o2">>],
      [id |-> "G3", scheduling |-> FALSE, obs |-> <<"o3">>],
      [id |-> "G4", scheduling |-> FALSE, obs |-> <<"o4">>] }

ObsSite == [o \in ObsIds |-> IF o = "o4" THEN "GS" ELSE "GN"]

\* acq_overhead of each observation, in ticks.
AcqOverhead == [o \in ObsIds |->
    CASE o = "o1" -> 2 [] o = "o2" -> 1 [] o = "o3" -> 2 [] o = "o4" -> 3]

\* exec_time of the atoms of each observation, in ticks.
ExecTimes == [o \in ObsIds |->
    CASE o = "o1" -> <<2, 3, 2>> [] o = "o2" -> <<1, 1>>
      [] o = "o3" -> <<1, 3>>    [] o = "o4" -> <<2>>]

\* An atom not yet observed: partner calibrations are partner time, every
\* other class is program time.
NewAtom(class, exec) ==
    [exec_time |-> exec,
     prog_time |-> IF class = "PARTNERCAL" THEN 0 ELSE exec,
     part_time |-> IF class = "PARTNERCAL" THEN exec ELSE 0,
     program_used |-> 0, partner_used |-> 0, not_charged |-> 0,
     observed |-> FALSE, qa_state |-> "NONE"]

\* An observation as ingested.
NewObservation(o, class) ==
    [id |-> o, site |-> ObsSite[o], obs_class |-> class,
     acq_overhead |-> AcqOverhead[o], status |-> "READY",
     sequence |-> [i \in 1..Len(ExecTimes[o]) |-> NewAtom(class, ExecTimes[o][i])]]

\* The observation after an earlier night observed its first atom.
StartedObservation(ob) ==
    [ob EXCEPT !.status = "ONGOING",
               !.sequence[1].observed = TRUE,
               !.sequence[1].qa_state = "PASS",
               !.sequence[1].program_used = ob.sequence[1].prog_time + ob.acq_overhead,
               !.sequence[1].partner_used = ob.sequence[1].part_time]

----------------------------------------------------------------------------
(* Library operations used by time_accounting (lucupy). *)

\* time2slots: the number of time slots that cover a duration.
time2slots(time_slot_length, time) ==
    (time + time_slot_length - 1) \div time_slot_length

\* Observation.cumulative_exec_times: cumulative exec_time of the
\* unobserved atoms. Element idx (0-based) is at position idx + 1.
RECURSIVE CumulSum(_, _)
CumulSum(sequence, n) ==
    IF n = 0 THEN 0
    ELSE CumulSum(sequence, n - 1)
         + (IF sequence[n].observed THEN 0 ELSE sequence[n].exec_time)

cumulative_exec_times(observation) ==
    [n \in 1..Len(observation.sequence) |-> CumulSum(observation.sequence, n)]

\* Group.partner_observations: the partner calibrations of the group.
partner_observations(group, obsmap) ==
    LET IsPartnerCal(o) == obsmap[o].obs_class = "PARTNERCAL"
    IN  SelectSeq(group.obs, IsPartnerCal)

\* list.remove(x) after the test x in list.
Remove(list, x) ==
    LET Other(y) == y # x
    IN  SelectSeq(list, Other)

InList(x, list) == \E i \in 1..Len(list) : list[i] = x

----------------------------------------------------------------------------
(* Collector.time_accounting *)

\* An Optional[TimeslotIndex].
None == [none |-> TRUE]
Some(k) == [none |-> FALSE, slot |-> k]

\* Collector._get_group: the top-level group an observation belongs to.
GetGroup(o) == CHOOSE g \in Groups : InList(o, g.obs)

\* GroupVisits.start_time_slot and GroupVisits.end_time_slot.
GrpStartTimeSlot(grpvisit) == grpvisit.visits[1].start_time_slot

GrpEndTimeSlot(grpvisit) ==
    LET last == grpvisit.visits[Len(grpvisit.visits)]
    IN  last.start_time_slot + last.time_slots - 1

\* sorted(plan.visits, key = start_time_slot): a stable insertion sort.
RECURSIVE InsertByStart(_, _)
InsertByStart(sorted, v) ==
    IF sorted = <<>> THEN <<v>>
    ELSE IF sorted[Len(sorted)].start_time_slot <= v.start_time_slot
         THEN Append(sorted, v)
         ELSE Append(InsertByStart(SubSeq(sorted, 1, Len(sorted) - 1), v),
                     sorted[Len(sorted)])

RECURSIVE SortedByStart(_)
SortedByStart(visits) ==
    IF visits = <<>> THEN <<>>
    ELSE InsertByStart(SortedByStart(SubSeq(visits, 1, Len(visits) - 1)),
                       visits[Len(visits)])

\* Lines 622-633: consecutive visits of one scheduling group form one
\* GroupVisits; every other visit is a GroupVisits of its own.
RECURSIVE GroupTheVisits(_, _)
GroupTheVisits(grpvisits, visits) ==
    IF visits = <<>> THEN grpvisits
    ELSE LET visit == Head(visits)
             group == GetGroup(visit.obs_id)
             n     == Len(grpvisits)
         IN  IF n > 0 /\ group.scheduling /\ group = grpvisits[n].group
             THEN GroupTheVisits(
                    [grpvisits EXCEPT ![n].visits = Append(@, visit)], Tail(visits))
             ELSE GroupTheVisits(
                    Append(grpvisits, [group |-> group, visits |-> <<visit>>]),
                    Tail(visits))

\* A scheduling group charged as a plain group is: when the bound is after
\* its start.
ChargeGroup_ByStart(grpvisit, end_timeslot_bound) ==
    end_timeslot_bound.none \/ end_timeslot_bound.slot > GrpStartTimeSlot(grpvisit)

\* Lines 638-642: whether the group is charged.
ChargeGroup(grpvisit, end_timeslot_bound) ==
    IF grpvisit.group.scheduling
    THEN end_timeslot_bound.none \/ end_timeslot_bound.slot > GrpEndTimeSlot(grpvisit)
    ELSE end_timeslot_bound.none \/ end_timeslot_bound.slot > GrpStartTimeSlot(grpvisit)

\* Lines 645-648: atoms that end before this slot are charged.
EndTimeslotCharge(grpvisit, end_timeslot_bound) ==
    IF ~end_timeslot_bound.none THEN end_timeslot_bound.slot
    ELSE GrpEndTimeSlot(grpvisit) + 1

\* Lines 653-654: whether the group's time goes to not_charged.
NotCharged(grpvisit, end_timeslot_bound) ==
    /\ grpvisit.group.scheduling
    /\ GrpStartTimeSlot(grpvisit) <= EndTimeslotCharge(grpvisit, end_timeslot_bound)
    /\ EndTimeslotCharge(grpvisit, end_timeslot_bound) <= GrpEndTimeSlot(grpvisit)

\* Line 677: the number of slots of the acquisition.
NSlotsAcq(observation) == time2slots(SlotLen, observation.acq_overhead)

\* Lines 696-697: the slot in which atom atom_idx of the visit ends.
SlotLengthVisit(observation, cumul_seq, atom_idx) ==
    NSlotsAcq(observation) + time2slots(SlotLen, cumul_seq[atom_idx + 1])

SlotAtomEnd(observation, visit, cumul_seq, atom_idx) ==
    visit.start_time_slot + SlotLengthVisit(observation, cumul_seq, atom_idx) - 1

\* Lines 699-703: the number of slots of the atom.
SlotAtomLength(observation, visit, cumul_seq, atom_idx) ==
    IF atom_idx = visit.atom_start_idx
    THEN SlotLengthVisit(observation, cumul_seq, atom_idx)
    ELSE SlotLengthVisit(observation, cumul_seq, atom_idx)
         - NSlotsAcq(observation) - time2slots(SlotLen, cumul_seq[atom_idx])

\* Lines 704-707: the slot in which the atom starts.
SlotAtomStart(observation, visit, cumul_seq, atom_idx) ==
    LET slot_atom_end    == SlotAtomEnd(observation, visit, cumul_seq, atom_idx)
        slot_atom_length == SlotAtomLength(observation, visit, cumul_seq, atom_idx)
    IN  IF slot_atom_length > 0 THEN slot_atom_end - slot_atom_length + 1
        ELSE slot_atom_end - slot_atom_length

\* Lines 717-722 without the test of line 717: the acquisition is charged
\* with every atom.
AcqCharged_EveryAtom(observation, visit, atom_idx) ==
    IF observation.obs_class \in {"PARTNERCAL", "SCIENCE", "PROGCAL"}
    THEN observation.acq_overhead
    ELSE 0

\* Lines 717-722: the acquisition overhead charged with the atom.
AcqCharged(observation, visit, atom_idx) ==
    IF atom_idx = visit.atom_start_idx
    THEN IF observation.obs_class = "PARTNERCAL"
         THEN observation.acq_overhead
         ELSE IF observation.obs_class = "SCIENCE" \/ observation.obs_class = "PROGCAL"
              THEN observation.acq_overhead
              ELSE 0
    ELSE 0

\* The comparison of line 709 written with <= for <.
AtomEndedBefore_OffByOne(slot_atom_end, end_timeslot_charge) ==
    slot_atom_end <= end_timeslot_charge

\* Line 709: the atom ended before the slot up to which time is charged.
AtomEndedBefore(slot_atom_end, end_timeslot_charge) ==
    slot_atom_end < end_timeslot_charge

\* The time of lines 729-730 without the slot of the bound itself.
NotChargedTime_OneSlotLess(end_timeslot_charge, slot_atom_start) ==
    (end_timeslot_charge - slot_atom_start) * SlotLen

\* Lines 729-730: the time added to not_charged.
NotChargedTime(end_timeslot_charge, slot_atom_start) ==
    (end_timeslot_charge - slot_atom_start + 1) * SlotLen

\* Lines 709-731: the atom after the accounting of one atom of a visit.
AccountAtom(observation, visit, cumul_seq, atom_idx, charge_group, not_charged, end_timeslot_charge) ==
    LET atom == observation.sequence[atom_idx + 1]
    IN  IF AtomEndedBefore(SlotAtomEnd(observation, visit, cumul_seq, atom_idx),
                           end_timeslot_charge)
        THEN IF charge_group
             THEN [atom EXCEPT
                     !.program_used = atom.prog_time
                                      + AcqCharged(observation, visit, atom_idx),
                     !.partner_used = atom.part_time,
                     !.observed = TRUE,
                     !.qa_state = "PASS"]
             ELSE IF not_charged
                  THEN [atom EXCEPT
                          !.not_charged = @ + NotChargedTime(end_timeslot_charge,
                                 SlotAtomStart(observation, visit, cumul_seq, atom_idx))]
                  ELSE atom
        ELSE atom

\* Lines 694-731: the loop over the atoms atom_idx..visit.atom_end_idx.
RECURSIVE AccountAtoms(_, _, _, _, _, _, _)
AccountAtoms(observation, visit, cumul_seq, atom_idx, charge_group, not_charged, end_timeslot_charge) ==
    IF atom_idx > visit.atom_end_idx THEN observation
    ELSE AccountAtoms(
            [observation EXCEPT !.sequence[atom_idx + 1] =
                AccountAtom(observation, visit, cumul_seq, atom_idx,
                            charge_group, not_charged, end_timeslot_charge)],
            visit, cumul_seq, atom_idx + 1,
            charge_group, not_charged, end_timeslot_charge)

\* The check of line 685 without the test of charge_group.
StatusAfterVisit_IgnoresCharge(observation, visit, charge_group, not_charged) ==
    IF visit.atom_end_idx = Len(observation.sequence) - 1
    THEN "OBSERVED"
    ELSE IF not_charged THEN "ONGOING" ELSE observation.status

\* Lines 685-691: the status of the observation after the check whether it
\* has been completely observed.
StatusAfterVisit(observation, visit, charge_group, not_charged) ==
    IF charge_group /\ visit.atom_end_idx = Len(observation.sequence) - 1
    THEN "OBSERVED"
    ELSE IF not_charged THEN "ONGOING" ELSE observation.status

\* Lines 688-689: the partner list after the check.
PartObsAfterVisit(part_obs, observation, visit, charge_group) ==
    IF /\ charge_group /\ visit.atom_end_idx = Len(observation.sequence) - 1
       /\ InList(observation.id, part_obs)
    THEN Remove(part_obs, observation.id)
    ELSE part_obs

\* Lines 668-731: the loop over the visits of a GroupVisits. acc holds the
\* observations, the list part_obs and the log of the status checks.
RECURSIVE AccountVisits(_, _, _, _, _)
AccountVisits(acc, visits, charge_group, not_charged, end_timeslot_charge) ==
    IF visits = <<>> THEN acc
    ELSE LET visit       == Head(visits)
             observation == acc.obsmap[visit.obs_id]
             cumul_seq   == cumulative_exec_times(observation)
             status      == StatusAfterVisit(observation, visit, charge_group, not_charged)
             part_obs    == PartObsAfterVisit(acc.part_obs, observation, visit, charge_group)
             marked      == [observation EXCEPT !.status = status]
             done        == AccountAtoms(marked, visit, cumul_seq, visit.atom_start_idx,
                                         charge_group, not_charged, end_timeslot_charge)
             entry       == [visit |-> visit, before |-> observation.status,
                             after |-> status, charge_group |-> charge_group,
                             not_charged |-> not_charged,
                             in_part_obs |-> InList(visit.obs_id, part_obs)]
         IN  AccountVisits([obsmap   |-> [acc.obsmap EXCEPT ![visit.obs_id] = done],
                            part_obs |-> part_obs,
                            log      |-> Append(acc.log, entry)],
                           Tail(visits), charge_group, not_charged, end_timeslot_charge)

\* Lines 739-743: the remaining partner calibrations become INACTIVE.
RECURSIVE SetInactive(_, _)
SetInactive(obsmap, part_obs) ==
    IF part_obs = <<>> THEN obsmap
    ELSE SetInactive([obsmap EXCEPT ![Head(part_obs)].status = "INACTIVE"],
                     Tail(part_obs))

\* Lines 635-743: the accounting of one GroupVisits.
AccountGroup(acc, grpvisit, end_timeslot_bound) ==
    LET charge_group == ChargeGroup(grpvisit, end_timeslot_bound)
        not_charged  == NotCharged(grpvisit, end_timeslot_bound)
        r == AccountVisits([obsmap   |-> acc.obsmap,
                            part_obs |-> partner_observations(grpvisit.group, acc.obsmap),
                            log      |-> acc.log],
                           grpvisit.visits, charge_group, not_charged,
                           EndTimeslotCharge(grpvisit, end_timeslot_bound))
    IN  [obsmap |-> IF charge_group THEN SetInactive(r.obsmap, r.part_obs) ELSE r.obsmap,
         log    |-> r.log]

RECURSIVE AccountGroups(_, _, _)
AccountGroups(acc, grpvisits, end_timeslot_bound) ==
    IF grpvisits = <<>> THEN acc
    ELSE AccountGroups(AccountGroup(acc, Head(grpvisits), end_timeslot_bound),
                       Tail(grpvisits), end_timeslot_bound)

\* Line 620: the bound of the site. end_timeslot_bounds is None or a
\* dictionary, given as a function from the sites it has an entry for.
NoBounds == [none |-> TRUE, dict |-> <<>>]
BoundsDict(d) == [none |-> FALSE, dict |-> d]

SiteBound(end_timeslot_bounds, site) ==
    IF end_timeslot_bounds.none THEN None
    ELSE IF site \in DOMAIN end_timeslot_bounds.dict
         THEN end_timeslot_bounds.dict[site]
         ELSE None

\* Line 615 without the test: every plan is accounted.
SiteAccounted_Always(site, sites) == TRUE

\* Line 615: whether the plan of the site is accounted.
SiteAccounted(site, sites) == site \in sites

\* Lines 614-743: the accounting of the plan of one site.
AccountPlan(acc, plans, site, sites, end_timeslot_bounds) ==
    IF ~SiteAccounted(site, sites) THEN acc
    ELSE AccountGroups(acc,
                       GroupTheVisits(<<>>, SortedByStart(plans[site])),
                       SiteBound(end_timeslot_bounds, site))

\* time_accounting(plans, sites, end_timeslot_bounds): plans holds the plan
\* of GN and then the plan of GS.
TimeAccountingOf(obsmap, plans, sites, end_timeslot_bounds) ==
    AccountPlan(
        AccountPlan([obsmap |-> obsmap, log |-> <<>>],
                    plans, "GN", sites, end_timeslot_bounds),
        plans, "GS", sites, end_timeslot_bounds)

----------------------------------------------------------------------------
(* The plans given to time_accounting: what an optimizer places for the    *)
(* night from the observations as they are.                                *)

\* The index (0-based) of the first atom not yet observed.
RECURSIVE FirstUnobserved(_, _)
FirstUnobserved(sequence, idx) ==
    IF idx >= Len(sequence) \/ ~sequence[idx + 1].observed THEN idx
    ELSE FirstUnobserved(sequence, idx + 1)

\* The visit that runs the atoms of the observation from the first one not
\* yet observed to atom_end_idx, starting at start_time_slot.
VisitOf(observation, start_time_slot, atom_end_idx) ==
    [obs_id          |-> observation.id,
     start_time_slot |-> start_time_slot,
     time_slots      |-> NSlotsAcq(observation)
                         + time2slots(SlotLen,
                               cumulative_exec_times(observation)[atom_end_idx + 1]),
     atom_start_idx  |-> FirstUnobserved(observation.sequence, 0),
     atom_end_idx    |-> atom_end_idx]

\* The visits of the observations of order, one after the other from
\* start_time_slot; ends gives the last atom of each visit.
RECURSIVE PlaceVisits(_, _, _, _)
PlaceVisits(obsmap, order, ends, start_time_slot) ==
    IF order = <<>> THEN <<>>
    ELSE LET visit == VisitOf(obsmap[Head(order)], start_time_slot, ends[Head(order)])
         IN  <<visit>> \o PlaceVisits(obsmap, Tail(order), ends,
                                      start_time_slot + visit.time_slots)

\* The orders in which the observations of a site are placed: the
\* observations of a scheduling group are placed together.
SiteOrders ==
    [s \in Sites |->
        IF s = "GS" THEN { <<>>, <<"o4">> }
        ELSE { <<>>, <<"o1">>, <<"o2">>, <<"o1", "o2">>, <<"o2", "o1">>,
               <<"o3">>, <<"o3", "o1">>, <<"o3", "o2">>,
               <<"o3", "o1", "o2">>, <<"o3", "o2", "o1">>,
               <<"o1", "o3">>, <<"o2", "o3">>,
               <<"o1", "o2", "o3">>, <<"o2", "o1", "o3">> }]

\* The choices of the last atom of the visit of each observation.
VisitEnds(obsmap) ==
    { ends \in [ObsIds -> 0..2] :
        \A o \in ObsIds :
            /\ ends[o] <= Len(obsmap[o].sequence) - 1
            /\ ends[o] >= FirstUnobserved(obsmap[o].sequence, 0) }

\* The plans of a night: one plan per site.
NightPlans(obsmap) ==
    { [s \in Sites |-> PlaceVisits(obsmap, order[s], ends, 0)] :
        order \in [Sites -> UNION { SiteOrders[s] : s \in Sites }] \cap
                  { f \in [Sites -> UNION { SiteOrders[s] : s \in Sites }] :
                        \A s \in Sites : f[s] \in SiteOrders[s] },
        ends \in VisitEnds(obsmap) }

\* The sets of sites time_accounting is called with.
SitesArgs == (SUBSET Sites) \ {{}}

\* The bounds a dictionary may hold for a site: any bound for GN, the end
\* of the first time slot for GS.
SiteBounds ==
    [s \in Sites |->
        IF s = "GS" THEN { Some(1) }
        ELSE {None} \cup { Some(k) : k \in 0..MaxBound }]

\* The end_timeslot_bounds time_accounting is called with.
BoundsArgs ==
    {NoBounds} \cup
    { BoundsDict(d) : d \in
        UNION { { f \in [dom -> UNION { SiteBounds[s] : s \in Sites }] :
                    \A s \in dom : f[s] \in SiteBounds[s] } :
                dom \in SUBSET Sites } }

----------------------------------------------------------------------------
(* The time accounting of one night as a state machine. *)

\* The observations before any time accounting: class is the obs_class of
\* o3, started tells whether o1 was started in an earlier night.
IngestedObservations(class, started) ==
    [o \in ObsIds |->
        CASE o = "o1" -> IF started
                         THEN StartedObservation(NewObservation(o, "SCIENCE"))
                         ELSE NewObservation(o, "SCIENCE")
          [] o = "o2" -> NewObservation(o, "PARTNERCAL")
          [] o = "o3" -> NewObservation(o, class)
          [] o = "o4" -> NewObservation(o, "PROGCAL")]

NotCalled(obsmap) ==
    [called |-> FALSE, plans |-> [s \in Sites |-> <<>>], sites |-> {},
     end_timeslot_bounds |-> NoBounds, before |-> obsmap]

\* The Collector after the programs have been loaded, before the accounting
\* of the night; no timeline is involved.
TaInit ==
    /\ \E class \in {"SCIENCE", "PARTNERCAL", "ACQ"} : \E started \in BOOLEAN :
          /\ observations = IngestedObservations(class, started)
          /\ last_call = NotCalled(IngestedObservations(class, started))
    /\ visit_log = <<>>
    /\ timeline = <<>>
    /\ final_plan = [kind |-> "NoCall", visits |-> <<>>]
    /\ called_on = <<>>
    /\ max_jobs = 1
    /\ jobs = <<>>
    /\ job_counter = 0
    /\ tasks = <<>>
    /\ last_op = [op |-> "none"]
    /\ event_queue = <<>>
    /\ ev_night = [twi_eve_time |-> 0, time_slot_length |-> 1]
    /\ ev_pc = "loading"
    /\ redis = <<>>
    /\ local_tz = 0
    /\ ti_call = [called |-> FALSE]
    /\ ti_calls = 0
    /\ workers = <<>>
    /\ programs = <<>>
    /\ observations_per_program = <<>>
    /\ target_info = <<>>
    /\ last_load = [called |-> FALSE]
    /\ ingested = 0
    /\ resets = [count |-> 0]
    /\ ranker = [scored |-> FALSE]
    /\ optimizer = [pc |-> "idle"]

\* Collector.time_accounting(plans, sites, end_timeslot_bounds), called
\* once for the night.
TimeAccounting(plans, sites, end_timeslot_bounds) ==
    /\ ~last_call.called
    /\ LET r == TimeAccountingOf(observations, plans, sites, end_timeslot_bounds)
       IN  /\ observations' = r.obsmap
           /\ visit_log' = r.log
    /\ last_call' = [called |-> TRUE, plans |-> plans, sites |-> sites,
                     end_timeslot_bounds |-> end_timeslot_bounds,
                     before |-> observations]

AccountNight ==
    /\ ~last_call.called
    /\ \E plans \in NightPlans(observations) :
          \E sites \in SitesArgs :
              \E end_timeslot_bounds \in BoundsArgs :
                  TimeAccounting(plans, sites, end_timeslot_bounds)

----------------------------------------------------------------------------
(* The timeline as a state machine. *)

NoCall == [kind |-> "NoCall", visits |-> <<>>]

\* An empty NightlyTimeline; the accounting variables are those of a
\* Collector without observations.
TlInit ==
    /\ timeline = <<>>
    /\ final_plan = NoCall
    /\ called_on = <<>>
    /\ observations = <<>>
    /\ last_call = NotCalled(<<>>)
    /\ visit_log = <<>>
    /\ max_jobs = 1
    /\ jobs = <<>>
    /\ job_counter = 0
    /\ tasks = <<>>
    /\ last_op = [op |-> "none"]
    /\ event_queue = <<>>
    /\ ev_night = [twi_eve_time |-> 0, time_slot_length |-> 1]
    /\ ev_pc = "loading"
    /\ redis = <<>>
    /\ local_tz = 0
    /\ ti_call = [called |-> FALSE]
    /\ ti_calls = 0
    /\ workers = <<>>
    /\ programs = <<>>
    /\ observations_per_program = <<>>
    /\ target_info = <<>>
    /\ last_load = [called |-> FALSE]
    /\ ingested = 0
    /\ resets = [count |-> 0]
    /\ ranker = [scored |-> FALSE]
    /\ optimizer = [pc |-> "idle"]

\* The entry list with the entry put first.
AppendEntry_AtFront(entries, entry) == <<entry>> \o entries

\* Line 48: the entry is appended to the list of the (night, site).
AppendEntry(entries, entry) == Append(entries, entry)

\* NightlyTimeline.add, called by the event loop: events are processed in
\* timestamp order, so the time slots of the entries never decrease. add
\* returns nothing, so the last call is no longer a get_final_plan.
Add(time_slot, plan_generated) ==
    /\ Len(timeline) < MaxEntries
    /\ timeline # <<>> => timeline[Len(timeline)].start_time_slot <= time_slot
    /\ timeline' = AppendEntry(timeline,
                               [start_time_slot |-> time_slot,
                                plan_generated  |-> plan_generated])
    /\ final_plan' = NoCall
    /\ called_on' = <<>>

AddEntry ==
    \E s \in 0..NumSlots :
        \/ Add(s, NoPlan)
        \/ \E q \in GeneratedVisits[s] :
              Add(s, PlanOf(VisitsOfEntry(Len(timeline) + 1, q)))

\* NightlyTimeline.get_final_plan(night_idx, site) on a (night, site) that
\* has entries.
GetFinalPlan ==
    /\ timeline # <<>>
    /\ LET r == GetFinalPlanOf(timeline)
       IN  /\ final_plan' = r.result
           /\ timeline' = r.entries
    /\ called_on' = timeline

----------------------------------------------------------------------------
(* Properties of get_final_plan. *)

\* The indices of the entries with a generated plan.
PlanEntries(entries) ==
    { i \in 1..Len(entries) : entries[i].plan_generated.gen }

\* The latest entry with a generated plan.
LatestPlanEntry(entries) ==
    CHOOSE i \in PlanEntries(entries) : \A j \in PlanEntries(entries) : j <= i

\* t_next of entry i: the time slot of the next later entry with a plan.
TNext(entries, i) ==
    LET next == CHOOSE j \in PlanEntries(entries) :
                    /\ j > i
                    /\ \A k \in PlanEntries(entries) : k > i => j <= k
    IN  entries[next].start_time_slot

\* The visits of the final plan that are Visit objects of entry i.
FinalVisitsOf(i) ==
    LET OfEntry(v) == v.entry = i
    IN  SelectSeq(final_plan.visits, OfEntry)

\* C1: the plan returned by get_final_plan for entries added in
\* non-decreasing start_time_slot order, whose plans are sorted and without
\* overlap, has its visits sorted by start_time_slot and no two overlap,
\* for any number of entries with a plan.
C1_FinalPlanSortedNoOverlap ==
    final_plan.kind = "Plan" => SortedNoOverlap(final_plan.visits)

\* C2: every entry with a plan other than the latest contributes only
\* visits of the slice [0, t_next) of its plan, t_next being the time slot
\* of the next later entry with a plan, and the latest entry with a plan
\* contributes its whole plan.
C2_SliceUpToNextEntry ==
    final_plan.kind = "Plan" =>
        LET latest == LatestPlanEntry(called_on)
        IN  /\ \A k \in 1..Len(final_plan.visits) :
                  LET v == final_plan.visits[k]
                  IN  v.entry # latest =>
                        /\ v.start_time_slot < TNext(called_on, v.entry)
                        /\ VisitEnd(v) <= TNext(called_on, v.entry)
            /\ FinalVisitsOf(latest) = called_on[latest].plan_generated.visits

\* C3: a visit of an earlier plan cut by the later event
\* (start_time_slot <= t_next < start_time_slot + time_slots) is in the
\* final plan with time_slots = t_next - start_time_slot, a visit truncated
\* to zero slots is omitted, and a visit that ends at or before t_next
\* keeps its time_slots.
C3_CutVisitTruncated ==
    final_plan.kind = "Plan" =>
        \A i \in PlanEntries(called_on) : i # LatestPlanEntry(called_on) =>
            LET visits == called_on[i].plan_generated.visits
                t_next == TNext(called_on, i)
            IN  \A k \in 1..Len(visits) :
                    LET v == visits[k]
                        InFinal(n) ==
                            \E m \in 1..Len(final_plan.visits) :
                                final_plan.visits[m] = [v EXCEPT !.time_slots = n]
                        Kept ==
                            \E m \in 1..Len(final_plan.visits) :
                                /\ final_plan.visits[m].entry = i
                                /\ final_plan.visits[m].start_time_slot = v.start_time_slot
                    IN  /\ (v.start_time_slot < t_next /\ t_next < VisitEnd(v))
                            => InFinal(t_next - v.start_time_slot)
                        /\ (v.start_time_slot = t_next \/ v.time_slots = 0) => ~Kept
                        /\ (v.time_slots > 0 /\ VisitEnd(v) <= t_next)
                            => InFinal(v.time_slots)

----------------------------------------------------------------------------
(* Properties of time_accounting, stated on the call made: its arguments   *)
(* and the observations before it (last_call), the observations after it   *)
(* (observations) and the log of the status checks (visit_log).            *)

Before == last_call.before

\* The end timeslot bound of a site as the caller gave it.
GivenBound(site) ==
    IF last_call.end_timeslot_bounds.none THEN None
    ELSE IF site \in DOMAIN last_call.end_timeslot_bounds.dict
         THEN last_call.end_timeslot_bounds.dict[site]
         ELSE None

\* The visits of the plan of a site, as a set.
PlanVisits(site) ==
    { last_call.plans[site][k] : k \in 1..Len(last_call.plans[site]) }

\* The visits of the plans of the sites in the given sites set.
AccountedVisits ==
    UNION { PlanVisits(site) : site \in last_call.sites }

\* The visits of the group of visit v in the plan of its site.
VisitsOfGroup(v) ==
    { w \in PlanVisits(ObsSite[v.obs_id]) : GetGroup(w.obs_id) = GetGroup(v.obs_id) }

\* The start slot of the first and the end slot of the last visit of the group.
GroupFirstSlot(v) ==
    CHOOSE a \in { w.start_time_slot : w \in VisitsOfGroup(v) } :
        \A w \in VisitsOfGroup(v) : a <= w.start_time_slot

GroupLastSlot(v) ==
    CHOOSE z \in { w.start_time_slot + w.time_slots - 1 : w \in VisitsOfGroup(v) } :
        \A w \in VisitsOfGroup(v) : w.start_time_slot + w.time_slots - 1 <= z

\* A scheduling group is charged iff bound is None or bound > end slot of
\* its last visit; a plain group iff bound is None or bound > start slot of
\* its visit.
GroupIsCharged(v) ==
    LET bound == GivenBound(ObsSite[v.obs_id])
    IN  \/ bound.none
        \/ IF GetGroup(v.obs_id).scheduling
           THEN bound.slot > GroupLastSlot(v)
           ELSE bound.slot > v.start_time_slot

\* The bound falls inside the visits of a scheduling group.
BoundInsideGroup(v) ==
    LET bound == GivenBound(ObsSite[v.obs_id])
    IN  /\ GetGroup(v.obs_id).scheduling
        /\ ~bound.none
        /\ GroupFirstSlot(v) <= bound.slot
        /\ bound.slot <= GroupLastSlot(v)

\* The atoms (0-based indices) of a visit.
AtomsOf(v) == v.atom_start_idx..v.atom_end_idx

\* The slot in which atom idx of visit v ends: the slots of the acquisition
\* and of the atoms of the visit up to idx, from the start of the visit.
AtomEndSlot(v, idx) ==
    SlotAtomEnd(Before[v.obs_id], v, cumulative_exec_times(Before[v.obs_id]), idx)

AtomBefore(o, idx) == Before[o].sequence[idx + 1]
AtomAfter(o, idx) == observations[o].sequence[idx + 1]

\* The call marked the atom as charged.
MarkedCharged(o, idx) ==
    \/ AtomAfter(o, idx).program_used # AtomBefore(o, idx).program_used
    \/ AtomAfter(o, idx).partner_used # AtomBefore(o, idx).partner_used
    \/ AtomAfter(o, idx).observed # AtomBefore(o, idx).observed
    \/ AtomAfter(o, idx).qa_state # AtomBefore(o, idx).qa_state

AtomIndices(o) == 0..(Len(Before[o].sequence) - 1)

\* C4: an atom is marked as charged (program_used := prog_time,
\* partner_used := part_time, observed, qa_state PASS) only if it is an atom
\* of a visit of an accounted plan whose group is charged and the atom ends
\* strictly before the end timeslot bound.
C4_ChargedOnlyBeforeBound ==
    last_call.called =>
        \A o \in ObsIds : \A idx \in AtomIndices(o) :
            MarkedCharged(o, idx) =>
                /\ AtomAfter(o, idx).program_used >= AtomBefore(o, idx).prog_time
                /\ AtomAfter(o, idx).partner_used = AtomBefore(o, idx).part_time
                /\ AtomAfter(o, idx).observed
                /\ AtomAfter(o, idx).qa_state = "PASS"
                /\ \E v \in AccountedVisits :
                      /\ v.obs_id = o
                      /\ idx \in AtomsOf(v)
                      /\ GroupIsCharged(v)
                      /\ \/ GivenBound(ObsSite[o]).none
                         \/ AtomEndSlot(v, idx) < GivenBound(ObsSite[o]).slot

\* A call with a bound for GN that charged one atom of a visit and left a
\* later atom of the same visit uncharged.
C4_Witness ==
    /\ last_call.called
    /\ ~GivenBound("GN").none
    /\ \E v \in AccountedVisits : \E i \in AtomsOf(v) : \E j \in AtomsOf(v) :
          /\ MarkedCharged(v.obs_id, i)
          /\ ~MarkedCharged(v.obs_id, j)
          /\ AtomEndSlot(v, j) = GivenBound("GN").slot

\* The time the call added to the accumulators of the atoms of o.
RECURSIVE TimeAdded(_, _)
TimeAdded(o, n) ==
    IF n = 0 THEN 0
    ELSE TimeAdded(o, n - 1)
         + (observations[o].sequence[n].program_used - Before[o].sequence[n].program_used)
         + (observations[o].sequence[n].partner_used - Before[o].sequence[n].partner_used)
         + (observations[o].sequence[n].not_charged - Before[o].sequence[n].not_charged)

\* The wall time of the visits of o in the plan of its site.
WallTime(o) ==
    LET mine == { v \in PlanVisits(ObsSite[o]) : v.obs_id = o }
    IN  IF mine = {} THEN 0
        ELSE (CHOOSE v \in mine : TRUE).time_slots * SlotLen

\* C5: after time_accounting, with any bound or none, for every
\* observation with visits in an accounted plan the time added to
\* program_used + partner_used + not_charged over its atoms equals the
\* wall time of its visits to within one slot.
C5_TimeConserved ==
    last_call.called =>
        \A v \in AccountedVisits :
            LET diff == TimeAdded(v.obs_id, Len(Before[v.obs_id].sequence))
                        - WallTime(v.obs_id)
            IN  -SlotLen <= diff /\ diff <= SlotLen

\* The case of C6: o1, an observation of the scheduling group G1, is
\* visited for its atoms 0..2 and the bound falls after atom 1 has ended
\* and before atom 2 ends.
C6_Case(v) ==
    /\ v \in AccountedVisits
    /\ v.obs_id = "o1"
    /\ v.atom_start_idx = 0
    /\ v.atom_end_idx = 2
    /\ ~GivenBound("GN").none
    /\ AtomEndSlot(v, 1) < GivenBound("GN").slot
    /\ GivenBound("GN").slot <= AtomEndSlot(v, 2)

C7_StatusAfterEachVisit ==
    last_call.called =>
        /\ { visit_log[k].visit : k \in 1..Len(visit_log) } = AccountedVisits
        /\ \A k \in 1..Len(visit_log) :
              LET e == visit_log[k]
                  v == e.visit
              IN  IF /\ v.atom_end_idx = Len(Before[v.obs_id].sequence) - 1
                     /\ GroupIsCharged(v)
                  THEN e.after = "OBSERVED" /\ ~e.in_part_obs
                  ELSE IF BoundInsideGroup(v)
                       THEN e.after = "ONGOING"
                       ELSE e.after = e.before

\* One call in which a visit made its observation OBSERVED, a visit made
\* its observation ONGOING and a visit left the status as it was.
C7_Witness ==
    /\ last_call.called
    /\ \E k \in 1..Len(visit_log) : visit_log[k].after = "OBSERVED"
    /\ \E k \in 1..Len(visit_log) :
          visit_log[k].after = "ONGOING" /\ visit_log[k].before = "READY"
    /\ \E k \in 1..Len(visit_log) :
          visit_log[k].after = "READY" /\ visit_log[k].before = "READY"

\* C8: an observation is set to INACTIVE only if it is a partner
\* calibration of a scheduling group that was charged and no visit of the
\* plans of the night executed it.
C8_InactiveOnlyUnexecutedPartnerCal ==
    last_call.called =>
        \A o \in ObsIds :
            (observations[o].status = "INACTIVE" /\ Before[o].status # "INACTIVE") =>
                /\ Before[o].obs_class = "PARTNERCAL"
                /\ GetGroup(o).scheduling
                /\ \E v \in AccountedVisits :
                      GetGroup(v.obs_id) = GetGroup(o) /\ GroupIsCharged(v)
                /\ \A site \in Sites : \A v \in PlanVisits(site) : v.obs_id # o

\* The visit was charged: the call marked its first atom as charged.
VisitCharged(v) == MarkedCharged(v.obs_id, v.atom_start_idx)

\* The accumulators of the charged atoms of a visit when the acquisition
\* overhead acq goes to program_used of the first atom alone.
AcqOnFirstAtomOnly(v, acq) ==
    \A idx \in AtomsOf(v) :
        /\ AtomAfter(v.obs_id, idx).not_charged = AtomBefore(v.obs_id, idx).not_charged
        /\ MarkedCharged(v.obs_id, idx) =>
              /\ AtomAfter(v.obs_id, idx).partner_used = AtomBefore(v.obs_id, idx).part_time
              /\ AtomAfter(v.obs_id, idx).program_used =
                    AtomBefore(v.obs_id, idx).prog_time
                    + (IF idx = v.atom_start_idx THEN acq ELSE 0)

\* C9 as claimed: when a visit is charged, the acquisition overhead of the
\* observation is added to program_used of the first atom of the visit and
\* to nothing else.
C9_AsClaimed ==
    last_call.called =>
        \A v \in AccountedVisits :
            VisitCharged(v) => AcqOnFirstAtomOnly(v, Before[v.obs_id].acq_overhead)

\* C9 as it holds: that is so for the observations of class SCIENCE,
\* PROGCAL and PARTNERCAL; for an observation of another class no
\* acquisition overhead is added to any accumulator.
C9_AcqOnFirstAtomOfChargedClasses ==
    last_call.called =>
        \A v \in AccountedVisits :
            VisitCharged(v) =>
                IF Before[v.obs_id].obs_class \in {"SCIENCE", "PROGCAL", "PARTNERCAL"}
                THEN AcqOnFirstAtomOnly(v, Before[v.obs_id].acq_overhead)
                ELSE AcqOnFirstAtomOnly(v, 0)

\* A charged visit of two atoms or more of a science observation and a
\* charged visit of a partner calibration.
C9_Witness ==
    /\ last_call.called
    /\ \E v \in AccountedVisits :
          /\ Before[v.obs_id].obs_class = "SCIENCE"
          /\ v.atom_end_idx > v.atom_start_idx
          /\ \A idx \in AtomsOf(v) : MarkedCharged(v.obs_id, idx)
    /\ \E v \in AccountedVisits :
          Before[v.obs_id].obs_class = "PARTNERCAL" /\ VisitCharged(v)

\* The site has no entry in end_timeslot_bounds.
NoEntryFor(site) ==
    \/ last_call.end_timeslot_bounds.none
    \/ site \notin DOMAIN last_call.end_timeslot_bounds.dict

\* C10: the observations visited only in plans of sites outside the sites
\* set are left as they were, and the plan of a site in the sites set with
\* no entry in end_timeslot_bounds is accounted over the whole night: every
\* atom of every visit is charged and nothing goes to not_charged.
C10_OnlyGivenSitesAndWholeNightWithoutEntry ==
    last_call.called =>
        /\ \A o \in ObsIds :
              ObsSite[o] \notin last_call.sites => observations[o] = Before[o]
        /\ \A site \in last_call.sites : NoEntryFor(site) =>
              \A v \in PlanVisits(site) : \A idx \in AtomsOf(v) :
                  /\ AtomAfter(v.obs_id, idx).observed
                  /\ AtomAfter(v.obs_id, idx).qa_state = "PASS"
                  /\ AtomAfter(v.obs_id, idx).not_charged
                       = AtomBefore(v.obs_id, idx).not_charged

\* A call for GS alone, with bounds that have an entry for GN and none for
\* GS, on plans that visit observations of both sites.
C10_Witness ==
    /\ last_call.called
    /\ last_call.sites = {"GS"}
    /\ ~last_call.end_timeslot_bounds.none
    /\ DOMAIN last_call.end_timeslot_bounds.dict = {"GN"}
    /\ last_call.plans["GN"] # <<>>
    /\ last_call.plans["GS"] # <<>>
    /\ observations["o4"].status = "OBSERVED"

----------------------------------------------------------------------------
(* Specifications. *)

TlNext ==
    \/ AddEntry /\ UNCHANGED <<ta_vars, rn_vars, ev_vars, ti_vars, cl_vars, vb_vars, rk_vars, op_vars>>
    \/ GetFinalPlan /\ UNCHANGED <<ta_vars, rn_vars, ev_vars, ti_vars, cl_vars, vb_vars, rk_vars, op_vars>>

SpecTimeline == TlInit /\ [][TlNext]_vars

TaNext == AccountNight /\ UNCHANGED <<tl_vars, rn_vars, ev_vars, ti_vars, cl_vars, vb_vars, rk_vars, op_vars>>

SpecAccounting == TaInit /\ [][TaNext]_vars

----------------------------------------------------------------------------
(* StandardRunner: the pool of jobs (scheduler/process_manager/runner.py). *)

\* Largest size of the pool (StandardRunner(size)).
MaxJobs == 2

\* Largest number of jobs started (values drawn from job_counter).
MaxStarted == 3

\* A ProcessTask that has been started: its result, whether its
\* done-callback (StandardRunner.terminated_job, registered at line 81) has
\* run, and whether that run invoked the runner's callbacks.
NewTask == [result |-> "RUNNING", notified |-> FALSE, callbacks |-> FALSE]

\* ProcessTask.terminate(): a running process is killed and its result is
\* TERMINATED; a process that has ended keeps its result.
Terminate(ts, seq) ==
    IF ts[seq + 1].result = "RUNNING"
    THEN [ts EXCEPT ![seq + 1].result = "TERMINATED"]
    ELSE ts

\* Job.__eq__ as dataclass(order=True) generates it: both fields are declared
\* compare=False, so the tuples of compared fields are empty and any two Jobs
\* are equal.
JobEq(a, b) == <<>> = <<>>

\* list.index(job): the position (from 1) of the first element equal to job,
\* 0 when there is none (ValueError).
JobIndex(js, job) ==
    IF \E i \in 1..Len(js) : JobEq(js[i], job)
    THEN CHOOSE i \in 1..Len(js) :
            /\ JobEq(js[i], job)
            /\ \A k \in 1..(i - 1) : ~JobEq(js[k], job)
    ELSE 0

\* del list[i] (i from 1).
DeleteAt(js, i) == SubSeq(js, 1, i - 1) \o SubSeq(js, i + 1, Len(js))

\* The job that evict takes, once line 91 is written with index 0.
EvictedJob_First(js) == js[1]

\* Line 91: job = self.jobs[-1].
EvictedJob(js) == js[Len(js)]

\* The position that line 93 deletes.
EvictedPos(js) == Len(js)

\* StandardRunner.evict on a pool that holds jobs.
EvictOf(js, ts) ==
    [jobs    |-> DeleteAt(js, EvictedPos(js)),
     tasks   |-> Terminate(ts, EvictedJob(js)),
     evicted |-> <<EvictedJob(js)>>]

\* Line 116.
PoolFull(js, size) == Len(js) = size

\* Line 118.
HasRoom(js, size) == Len(js) < size

\* schedule without the tests of lines 116 and 118: the job is always
\* started and appended.
ScheduleOf_NoCapacityTest(js, ts, counter, size) ==
    [jobs |-> Append(js, counter), tasks |-> Append(ts, NewTask),
     counter |-> counter + 1, returned |-> "True",
     evicted |-> <<>>, started |-> <<counter>>]

\* StandardRunner.schedule (with _run_job, lines 72-84): the pool, the tasks
\* and the counter after the call, the value returned, the job evicted and
\* the job started. evict on an empty list raises IndexError, which neither
\* evict nor schedule catches.
ScheduleOf(js, ts, counter, size) ==
    IF PoolFull(js, size) /\ js = <<>>
    THEN [jobs |-> js, tasks |-> ts, counter |-> counter,
          returned |-> "IndexError", evicted |-> <<>>, started |-> <<>>]
    ELSE LET e   == IF PoolFull(js, size) THEN EvictOf(js, ts)
                    ELSE [jobs |-> js, tasks |-> ts, evicted |-> <<>>]
         IN  IF HasRoom(e.jobs, size)
             THEN [jobs |-> Append(e.jobs, counter),
                   tasks |-> Append(e.tasks, NewTask),
                   counter |-> counter + 1, returned |-> "True",
                   evicted |-> e.evicted, started |-> <<counter>>]
             ELSE [jobs |-> e.jobs, tasks |-> e.tasks, counter |-> counter,
                   returned |-> "False", evicted |-> e.evicted, started |-> <<>>]

\* Lines 129-130: every job of the pool is terminated.
RECURSIVE TerminateEach(_, _)
TerminateEach(ts, js) ==
    IF js = <<>> THEN ts
    ELSE TerminateEach(Terminate(ts, Head(js)), Tail(js))

\* Line 54 testing for a normal end only: a timeout is treated as a
\* termination.
NeedsWork_OnlyDone(res) == res = "DONE"

\* Line 54: res != Result.TERMINATED.
NeedsWork(res) == res # "TERMINATED"

\* StandardRunner.terminated_job(job, ptask): the pool after lines 63-66 and
\* whether the callbacks were invoked (lines 69-70).
TerminatedJobOf(js, seq, res) ==
    IF NeedsWork(res)
    THEN [jobs |-> IF JobIndex(js, seq) # 0 THEN DeleteAt(js, JobIndex(js, seq)) ELSE js,
          callbacks |-> TRUE]
    ELSE [jobs |-> js, callbacks |-> FALSE]

\* A runner of some size, no job scheduled yet.
RnInit ==
    /\ max_jobs \in 1..MaxJobs
    /\ jobs = <<>>
    /\ job_counter = 0
    /\ tasks = <<>>
    /\ last_op = [op |-> "none"]
    /\ timeline = <<>>
    /\ final_plan = [kind |-> "NoCall", visits |-> <<>>]
    /\ called_on = <<>>
    /\ observations = <<>>
    /\ last_call = [called |-> FALSE, plans |-> [s \in {"GN", "GS"} |-> <<>>], sites |-> {},
                    end_timeslot_bounds |-> [none |-> TRUE], before |-> <<>>]
    /\ visit_log = <<>>
    /\ event_queue = <<>>
    /\ ev_night = [twi_eve_time |-> 0, time_slot_length |-> 1]
    /\ ev_pc = "loading"
    /\ redis = <<>>
    /\ local_tz = 0
    /\ ti_call = [called |-> FALSE]
    /\ ti_calls = 0
    /\ workers = <<>>
    /\ programs = <<>>
    /\ observations_per_program = <<>>
    /\ target_info = <<>>
    /\ last_load = [called |-> FALSE]
    /\ ingested = 0
    /\ resets = [count |-> 0]
    /\ ranker = [scored |-> FALSE]
    /\ optimizer = [pc |-> "idle"]

\* StandardRunner.schedule(process, timeout).
Schedule ==
    /\ job_counter < MaxStarted
    /\ LET r == ScheduleOf(jobs, tasks, job_counter, max_jobs)
       IN  /\ jobs' = r.jobs
           /\ tasks' = r.tasks
           /\ job_counter' = r.counter
           /\ last_op' = [op |-> "schedule", before |-> jobs, after |-> r.jobs,
                          returned |-> r.returned, evicted |-> r.evicted,
                          started |-> r.started]
    /\ UNCHANGED max_jobs

\* StandardRunner.evict(), called on its own.
Evict ==
    /\ last_op.op # "evict"
    /\ IF jobs = <<>>
       THEN /\ last_op' = [op |-> "evict", before |-> jobs, after |-> jobs,
                           returned |-> "IndexError", evicted |-> <<>>,
                           started |-> <<>>]
            /\ UNCHANGED <<jobs, tasks>>
       ELSE LET e == EvictOf(jobs, tasks)
            IN  /\ jobs' = e.jobs
                /\ tasks' = e.tasks
                /\ last_op' = [op |-> "evict", before |-> jobs, after |-> e.jobs,
                               returned |-> "None", evicted |-> e.evicted,
                               started |-> <<>>]
    /\ UNCHANGED <<max_jobs, job_counter>>

\* StandardRunner.terminate_all().
TerminateAll ==
    /\ jobs # <<>>
    /\ tasks' = TerminateEach(tasks, jobs)
    /\ jobs' = <<>>
    /\ last_op' = [op |-> "terminate_all", before |-> jobs, after |-> <<>>,
                   returned |-> "None", evicted |-> <<>>, started |-> <<>>]
    /\ UNCHANGED <<max_jobs, job_counter>>

\* The process of a job ends by itself: normally, or by its timeout.
ProcessEnds ==
    \E seq \in 0..(job_counter - 1) : \E res \in {"DONE", "TIMEOUT"} :
        /\ tasks[seq + 1].result = "RUNNING"
        /\ tasks' = [tasks EXCEPT ![seq + 1].result = res]
        /\ UNCHANGED <<max_jobs, jobs, job_counter, last_op>>

\* The ProcessTask of a job that has ended runs its done-callback:
\* StandardRunner.terminated_job(job, ptask).
TerminatedJob(seq) ==
    /\ tasks[seq + 1].result # "RUNNING"
    /\ ~tasks[seq + 1].notified
    /\ LET r == TerminatedJobOf(jobs, seq, tasks[seq + 1].result)
       IN  /\ jobs' = r.jobs
           /\ tasks' = [tasks EXCEPT ![seq + 1].notified = TRUE,
                                     ![seq + 1].callbacks = r.callbacks]
           /\ last_op' = [op |-> "terminated_job", before |-> jobs, after |-> r.jobs,
                          returned |-> "None", evicted |-> <<>>, started |-> <<>>,
                          job |-> seq, result |-> tasks[seq + 1].result]
    /\ UNCHANGED <<max_jobs, job_counter>>

JobFinished == \E seq \in 0..(job_counter - 1) : TerminatedJob(seq)

RnNext ==
    \/ Schedule /\ UNCHANGED <<tl_vars, ta_vars, ev_vars, ti_vars, cl_vars, vb_vars, rk_vars, op_vars>>
    \/ Evict /\ UNCHANGED <<tl_vars, ta_vars, ev_vars, ti_vars, cl_vars, vb_vars, rk_vars, op_vars>>
    \/ TerminateAll /\ UNCHANGED <<tl_vars, ta_vars, ev_vars, ti_vars, cl_vars, vb_vars, rk_vars, op_vars>>
    \/ ProcessEnds /\ UNCHANGED <<tl_vars, ta_vars, ev_vars, ti_vars, cl_vars, vb_vars, rk_vars, op_vars>>
    \/ JobFinished /\ UNCHANGED <<tl_vars, ta_vars, ev_vars, ti_vars, cl_vars, vb_vars, rk_vars, op_vars>>

SpecRunner == RnInit /\ [][RnNext]_vars

\* The event loop runs the done-callback of every task that has ended.
SpecRunnerLive == RnInit /\ [][RnNext]_vars /\ WF_vars(JobFinished /\ UNCHANGED <<tl_vars, ta_vars, ev_vars, ti_vars, cl_vars, vb_vars, rk_vars, op_vars>>)

----------------------------------------------------------------------------
(* Claims about StandardRunner. *)

\* The elements of a list.
Held(js) == {js[i] : i \in 1..Len(js)}

\* The job scheduled earliest, and the one scheduled latest, among those held.
Oldest(js) == CHOOSE j \in Held(js) : \A k \in Held(js) : j <= k

Newest(js) == CHOOSE j \in Held(js) : \A k \in Held(js) : k <= j

\* schedule was the last method called, on a full pool.
ScheduledOnFull ==
    /\ last_op.op = "schedule"
    /\ Len(last_op.before) = max_jobs

\* C11 as stated: when schedule is called on a full pool, the job terminated
\* and removed is the oldest job held.
C11_AsClaimed ==
    ScheduledOnFull =>
        /\ last_op.evicted = <<Oldest(last_op.before)>>
        /\ Oldest(last_op.before) \notin Held(last_op.after)

\* C11, amended: when schedule is called on a full pool, the job terminated
\* and removed is the newest job held (the last of the list); every other
\* job held stays, in its order, followed by the job started.
C11_EvictsNewest ==
    ScheduledOnFull =>
        LET newest == Newest(last_op.before)
        IN  /\ last_op.evicted = <<newest>>
            /\ tasks[newest + 1].result # "RUNNING"
            /\ last_op.after = SubSeq(last_op.before, 1, max_jobs - 1) \o last_op.started
            /\ newest \notin Held(last_op.after)

\* schedule was called on a full pool of at least two jobs, and the one it
\* evicted was killed while running.
C11_Witness ==
    /\ ScheduledOnFull
    /\ Len(last_op.before) >= 2
    /\ last_op.evicted # <<>>
    /\ tasks[last_op.evicted[1] + 1].result = "TERMINATED"

\* C12: the pool never holds more than max_jobs jobs, and schedule returns
\* True exactly when the new job was started and appended to jobs; otherwise
\* it returns False and jobs is as it was.
C12_PoolBoundedAndScheduleResult ==
    /\ Len(jobs) <= max_jobs
    /\ last_op.op = "schedule" =>
          /\ last_op.returned \in {"True", "False"}
          /\ last_op.returned = "True" <=>
                /\ last_op.started # <<>>
                /\ Len(last_op.after) >= 1
                /\ last_op.after[Len(last_op.after)] = last_op.started[1]
                /\ last_op.started[1] \notin Held(last_op.before)
          /\ last_op.returned = "False" => last_op.after = last_op.before

\* schedule returned True on a full pool, after jobs have ended and been
\* evicted.
C12_Witness ==
    /\ ScheduledOnFull
    /\ last_op.returned = "True"
    /\ Len(jobs) = max_jobs
    /\ \E seq \in 0..(job_counter - 1) : tasks[seq + 1].result = "DONE"
    /\ \E seq \in 0..(job_counter - 1) : tasks[seq + 1].result = "TERMINATED"

\* The jobs started so far.
Started == 0..(job_counter - 1)

\* C13 as stated, for the jobs whose end has been handled: once the
\* done-callback of a job's task has run, the runner's callbacks have been
\* invoked for it, however the job ended.
C13_AsClaimed ==
    \A seq \in Started : tasks[seq + 1].notified => tasks[seq + 1].callbacks

\* C13, amended: every job that ends by normal completion or by timeout
\* eventually causes the runner's callbacks to be invoked; for a job that
\* was terminated they are never invoked.
C13_CallbacksUnlessTerminated ==
    /\ \A seq \in 0..(MaxStarted - 1) :
          (seq \in Started /\ tasks[seq + 1].result \in {"DONE", "TIMEOUT"})
             ~> (seq \in Started /\ tasks[seq + 1].callbacks)
    /\ [](\A seq \in Started :
             tasks[seq + 1].result = "TERMINATED" => ~tasks[seq + 1].callbacks)

\* The ends of three jobs have been handled: one completed, one timed out,
\* one was terminated.
C13_Witness ==
    /\ \E seq \in Started : /\ tasks[seq + 1].result = "DONE"
                            /\ tasks[seq + 1].callbacks
    /\ \E seq \in Started : /\ tasks[seq + 1].result = "TIMEOUT"
                            /\ tasks[seq + 1].callbacks
    /\ \E seq \in Started : /\ tasks[seq + 1].result = "TERMINATED"
                            /\ tasks[seq + 1].notified

----------------------------------------------------------------------------
(* The events of one (night, site): the queue, the loop that processes    *)
(* them, and Event.to_timeslot_idx (scheduler/core/eventsqueue/events.py). *)

\* Largest number of events of the (night, site).
MaxEvents == 3

\* Latest time of an event, in ticks.
MaxEventTime == 3

\* The kinds of event.
EventKinds ==
    {"EveningTwilight", "ResumeNight", "WeatherChange", "Fault", "EngTask",
     "MorningTwilight"}

\* The place of a kind of event in the order that breaks ties.
KindRank(kind) ==
    CASE kind = "EveningTwilight" -> 0
      [] kind = "ResumeNight"     -> 1
      [] kind = "WeatherChange"   -> 2
      [] kind = "Fault"           -> 3
      [] kind = "EngTask"         -> 4
      [] kind = "MorningTwilight" -> 5

\* The events that may occur.
Events == [start : 0..MaxEventTime, kind : EventKinds]

\* The order of the queue: by timestamp, then by kind.
EventBefore(a, b) ==
    \/ a.start < b.start
    \/ a.start = b.start /\ KindRank(a.kind) < KindRank(b.kind)

\* The queue with one more event, in its place.
RECURSIVE InsertEvent(_, _)
InsertEvent(queue, event) ==
    IF queue = <<>> THEN <<event>>
    ELSE IF EventBefore(event, Head(queue)) THEN <<event>> \o queue
    ELSE <<Head(queue)>> \o InsertEvent(Tail(queue), event)

\* to_timeslot_idx with the two datetimes of line 27 exchanged.
to_timeslot_idx_Exchanged(start, twi_eve, time_slot_length) ==
    time2slots(time_slot_length, twi_eve - start)

\* Event.to_timeslot_idx(twi_eve_time, time_slot_length) of an event that
\* starts at start.
to_timeslot_idx(start, twi_eve, time_slot_length) ==
    time2slots(time_slot_length, start - twi_eve)

\* The queue of a night that is about to be loaded.
EvInit ==
    /\ event_queue = <<>>
    /\ ev_night \in [twi_eve_time : {0, 1}, time_slot_length : {1, SlotLen}]
    /\ ev_pc = "loading"
    /\ timeline = <<>>
    /\ final_plan = [kind |-> "NoCall", visits |-> <<>>]
    /\ called_on = <<>>
    /\ observations = <<>>
    /\ last_call = [called |-> FALSE, plans |-> [s \in {"GN", "GS"} |-> <<>>], sites |-> {},
                    end_timeslot_bounds |-> [none |-> TRUE], before |-> <<>>]
    /\ visit_log = <<>>
    /\ max_jobs = 1
    /\ jobs = <<>>
    /\ job_counter = 0
    /\ tasks = <<>>
    /\ last_op = [op |-> "none"]
    /\ redis = <<>>
    /\ local_tz = 0
    /\ ti_call = [called |-> FALSE]
    /\ ti_calls = 0
    /\ workers = <<>>
    /\ programs = <<>>
    /\ observations_per_program = <<>>
    /\ target_info = <<>>
    /\ last_load = [called |-> FALSE]
    /\ ingested = 0
    /\ resets = [count |-> 0]
    /\ ranker = [scored |-> FALSE]
    /\ optimizer = [pc |-> "idle"]

\* EventQueue.add_event(night, site, event), before the night is processed.
AddEvent(event) ==
    /\ ev_pc = "loading"
    /\ Len(event_queue) < MaxEvents
    /\ \A i \in 1..Len(event_queue) : event_queue[i] # event
    /\ event_queue' = InsertEvent(event_queue, event)
    /\ UNCHANGED <<ev_night, ev_pc, timeline>>

\* ValidationBuilder.load_events for one site and day: the faults of the
\* day are added (line 136) before its engineering tasks (line 138).
LoadEvents ==
    \E event \in Events :
        /\ event.kind \in {"Fault", "EngTask"}
        /\ event.kind = "Fault" =>
              \A i \in 1..Len(event_queue) : event_queue[i].kind # "EngTask"
        /\ AddEvent(event)

\* The events that the service itself adds: twilights, weather changes and
\* resumptions.
AddOtherEvent ==
    \E event \in Events :
        /\ event.kind \notin {"Fault", "EngTask"}
        /\ AddEvent(event)

\* One turn of the event loop: the next event of the queue is taken, its
\* time slot computed, and the entry recorded with NightlyTimeline.add.
ProcessEvent ==
    /\ event_queue # <<>>
    /\ LET event == Head(event_queue)
           idx   == to_timeslot_idx(event.start, ev_night.twi_eve_time,
                                    ev_night.time_slot_length)
       IN  timeline' = AppendEntry(timeline,
                                   [start_time_slot |-> idx, event |-> event,
                                    plan_generated |-> NoPlan])
    /\ event_queue' = Tail(event_queue)
    /\ ev_pc' = "processing"
    /\ UNCHANGED ev_night

EvNext ==
    \/ LoadEvents /\ UNCHANGED <<final_plan, called_on, ta_vars, rn_vars, ti_vars, cl_vars, vb_vars, rk_vars, op_vars>>
    \/ AddOtherEvent /\ UNCHANGED <<final_plan, called_on, ta_vars, rn_vars, ti_vars, cl_vars, vb_vars, rk_vars, op_vars>>
    \/ ProcessEvent /\ UNCHANGED <<final_plan, called_on, ta_vars, rn_vars, ti_vars, cl_vars, vb_vars, rk_vars, op_vars>>

SpecEvents == EvInit /\ [][EvNext]_vars

----------------------------------------------------------------------------
(* Claims about the events. *)

CeilOf(d, n) ==
    CHOOSE k \in (0 - MaxEventTime - 1)..(MaxEventTime + 1) :
        /\ d <= k * n
        /\ (k - 1) * n < d

\* C15: the time slot recorded for an event is
\* ceil((event.start - twi_eve_time) / time_slot_length); it does not
\* decrease with event.start, is 0 for an event at evening twilight, and is
\* not negative for an event at or after evening twilight.
C15_TimeslotIsCeiling ==
    /\ \A i \in 1..Len(timeline) :
          /\ timeline[i].start_time_slot =
                CeilOf(timeline[i].event.start - ev_night.twi_eve_time,
                       ev_night.time_slot_length)
          /\ timeline[i].event.start = ev_night.twi_eve_time =>
                timeline[i].start_time_slot = 0
          /\ timeline[i].event.start >= ev_night.twi_eve_time =>
                timeline[i].start_time_slot >= 0
    /\ \A i, j \in 1..Len(timeline) :
          timeline[i].event.start <= timeline[j].event.start =>
              timeline[i].start_time_slot <= timeline[j].start_time_slot

\* Events before, at and after evening twilight have been given their time
\* slots, one of them not at the start of a slot.
C15_Witness ==
    /\ Len(timeline) = 3
    /\ ev_night.time_slot_length = SlotLen
    /\ timeline[1].event.start < ev_night.twi_eve_time
    /\ timeline[2].event.start = ev_night.twi_eve_time
    /\ timeline[3].event.start = ev_night.twi_eve_time + 1
    /\ timeline[3].start_time_slot = 1

----------------------------------------------------------------------------
(* Collector._process_timing_windows and Collector._calculate_target_info *)
(* (scheduler/core/components/collector/collector.py, lines 238-454).     *)
(* Times are ticks since the start of the first night of the calendar.    *)

\* Number of nights (julian days) of the calendar.
NumNights == 2

\* Largest number of calls of _calculate_target_info in a row.
MaxCalls == 2

\* The length of a night and of a day, in ticks.
NightLen == 2 * SlotLen

DayLen == 3 * SlotLen

\* The observation whose target information is calculated.
TheObs == "o1"

\* The program of the observation: it spans the calendar.
TheProgram == [start |-> 0, end |-> NumNights * DayLen]

\* TimingWindow.period: None, or a duration.
NoPeriod == [none |-> TRUE]

PeriodOf(p) == [none |-> FALSE, value |-> p]

\* The lists of timing windows an observation may declare: none; one
\* window that does not repeat; two copies that overlap (period shorter
\* than duration); two copies a day apart; two windows listed latest first.
DeclaredWindows ==
    { <<>>,
      << [start |-> 1, duration |-> 2, repeat |-> 0, period |-> NoPeriod] >>,
      << [start |-> 1, duration |-> 2, repeat |-> 2, period |-> PeriodOf(1)] >>,
      << [start |-> 1, duration |-> 1, repeat |-> 2, period |-> PeriodOf(DayLen)] >>,
      << [start |-> 3, duration |-> 0, repeat |-> 1, period |-> NoPeriod],
         [start |-> 1, duration |-> 1, repeat |-> 1, period |-> NoPeriod] >> }

\* The UTC offsets of the time zones the process may run in: UTC, or one
\* tick west of it.
LocalUtcOffsets == {0, 0 - 1}

\* time.mktime(t.utctimetuple()): mktime reads the tuple as a local time, so
\* the epoch it returns is the UTC time less the offset of the local zone.
Mktime(utc, tz) == utc - tz

\* max(1, tw.repeat).
Max(a, b) == IF a >= b THEN a ELSE b

\* Line 259.
Repeat(tw) == Max(1, tw.repeat)

\* Line 260.
Period(tw) == IF tw.period.none THEN 0 ELSE tw.period.value

\* Line 261: the copies i = first..repeat-1 of a timing window that begins
\* at begin.
RECURSIVE WindowCopies(_, _, _, _, _)
WindowCopies(begin, duration, period, i, repeat) ==
    IF i >= repeat THEN <<>>
    ELSE <<  <<begin + i * period, begin + i * period + duration>>  >>
         \o WindowCopies(begin, duration, period, i + 1, repeat)

\* Lines 255-261: the loop over the declared timing windows.
RECURSIVE ExtendWindows(_, _)
ExtendWindows(timing_windows, tz) ==
    IF timing_windows = <<>> THEN <<>>
    ELSE LET tw == Head(timing_windows)
         IN  WindowCopies(Mktime(tw.start, tz), tw.duration, Period(tw), 0, Repeat(tw))
             \o ExtendWindows(Tail(timing_windows), tz)

\* Collector._process_timing_windows(prog, obs), in a process whose local
\* time zone has the UTC offset tz.
ProcessTimingWindows(prog, timing_windows, tz) ==
    IF Len(timing_windows) = 0
    THEN << <<prog.start, prog.end>> >>
    ELSE ExtendWindows(timing_windows, tz)

\* NightEvents for the site of the observation: the night of julian day
\* jday starts at NightStart(jday); its time slots have the length of the
\* Collector that asks.
NightStart(jday) == (jday - 1) * DayLen

NumTimeslots(jday, time_slot_length) == NightLen \div time_slot_length

\* night_events.times[night_idx]: the start of each time slot (slot k is at
\* position k + 1).
NightTimes(jday, time_slot_length) ==
    [k \in 1..NumTimeslots(jday, time_slot_length) |->
        NightStart(jday) + (k - 1) * time_slot_length]

\* night_events.sun_alt_indices[night_idx] restricted to the slots that meet
\* the constraints of lines 397-403 (sa_idx[c_idx]): the sun is too high in
\* the first slot of the night; sky background, resources, program filter
\* and elevation are met in every slot.
Candidates(jday, time_slot_length) ==
    [k \in 1..(NumTimeslots(jday, time_slot_length) - 1) |-> k]

\* Lines 409-410: the bounds of a timing window are inclusive.
InWindow(time, tw) == time >= tw[1] /\ time <= tw[2]

\* Lines 407-412: the loop over the timing windows, appending to
\* visibility_slot_idx.
RECURSIVE VisibilitySlotIdx(_, _, _)
VisibilitySlotIdx(jday, time_slot_length, timing_windows) ==
    IF timing_windows = <<>> THEN <<>>
    ELSE SelectSeq(Candidates(jday, time_slot_length),
                   LAMBDA k : InWindow(NightTimes(jday, time_slot_length)[k + 1],
                                       Head(timing_windows)))
         \o VisibilitySlotIdx(jday, time_slot_length, Tail(timing_windows))

\* Lines 416-417: zeros, with 1 put at every index listed.
VisibilitySlotFilter(jday, time_slot_length, visibility_slot_idx) ==
    [k \in 1..NumTimeslots(jday, time_slot_length) |->
        IF \E i \in 1..Len(visibility_slot_idx) : visibility_slot_idx[i] = k - 1
        THEN 1 ELSE 0]

\* A quotient of two durations, in lowest terms.
RECURSIVE Gcd(_, _)
Gcd(a, b) == IF b = 0 THEN a ELSE Gcd(b, a % b)

Quotient(num, den) == [num |-> num \div Gcd(num, den), den |-> den \div Gcd(num, den)]

\* Lines 426-431.
RemVisibilityFrac(numerator, rem_visibility_time) ==
    IF rem_visibility_time # 0
    THEN Quotient(numerator, rem_visibility_time)
    ELSE Quotient(0, 1)

\* Lines 346-445: the TargetInfo computed for a night. rem_visibility_time
\* is the sum kept by the loop over the nights, as it is before this night.
\* (Coordinates, altitude, airmass and sky brightness are arrays over the
\* time slots of the night; num_slots stands for them.)
ComputeTargetInfo(collector, jday, timing_windows, rem_visibility_time) ==
    LET idx  == VisibilitySlotIdx(jday, collector.time_slot_length, timing_windows)
        time == Len(idx) * collector.time_slot_length
        rem  == rem_visibility_time + time
    IN  [num_slots              |-> NumTimeslots(jday, collector.time_slot_length),
         visibility_slot_idx    |-> idx,
         visibility_slot_filter |-> VisibilitySlotFilter(jday, collector.time_slot_length, idx),
         visibility_time        |-> time,
         rem_visibility_time    |-> rem,
         rem_visibility_frac    |-> RemVisibilityFrac(collector.remaining, rem)]

\* Line 307: the key is built from the observation id, the julian day and
\* Collector.DEFAULT_TIMESLOT_LENGTH.
RedisKey(obs_id, jday, collector) == <<obs_id, jday, SlotLen>>

\* The keys of the cache.
RedisKeys == {TheObs} \X (1..NumNights) \X {SlotLen}

\* The empty cache.
EmptyRedis == [key \in RedisKeys |-> <<>>]

\* Lines 302-451: the loop over the nights of the time grid, last night
\* first, from the night jday on. acc holds the cache, the sum
\* rem_visibility_time, the map target_info and the nights read from the
\* cache.
RECURSIVE CalculateNights(_, _, _, _)
CalculateNights(collector, timing_windows, jday, acc) ==
    IF jday < collector.first THEN acc
    ELSE LET key == RedisKey(TheObs, jday, collector)
         IN  IF acc.redis[key] # <<>>
             THEN CalculateNights(collector, timing_windows, jday - 1,
                     [acc EXCEPT !.target_info = (jday :> acc.redis[key][1]) @@ @,
                                 !.cached = @ \cup {jday}])
             ELSE LET ti == ComputeTargetInfo(collector, jday, timing_windows,
                                              acc.rem_visibility_time)
                  IN  CalculateNights(collector, timing_windows, jday - 1,
                         [acc EXCEPT !.redis[key] = <<ti>>,
                                     !.rem_visibility_time = ti.rem_visibility_time,
                                     !.target_info = (jday :> ti) @@ @])

\* Collector._calculate_target_info(obs, target, timing_windows) of a
\* Collector whose time grid is first..last, with the cache as it is.
CalculateTargetInfo(collector, timing_windows, cache) ==
    CalculateNights(collector, timing_windows, collector.last,
                    [redis |-> cache, rem_visibility_time |-> 0,
                     target_info |-> <<>>, cached |-> {}])

\* The Collectors that may ask: the time grid first..last, the length of a
\* time slot, the remaining time of the observation (exec_time less
\* total_used, line 298) and the timing windows the observation declares.
Collectors ==
    { c \in [first : 1..NumNights, last : 1..NumNights,
             time_slot_length : {1, SlotLen}, remaining : {SlotLen, 2 * SlotLen},
             timing_windows : DeclaredWindows] : c.first <= c.last }

\* A process with an empty cache.
TiInit ==
    /\ redis = EmptyRedis
    /\ local_tz \in LocalUtcOffsets
    /\ ti_call = [called |-> FALSE]
    /\ ti_calls = 0
    /\ workers = <<>>
    /\ programs = <<>>
    /\ observations_per_program = <<>>
    /\ target_info = <<>>
    /\ last_load = [called |-> FALSE]
    /\ ingested = 0
    /\ resets = [count |-> 0]
    /\ ranker = [scored |-> FALSE]
    /\ optimizer = [pc |-> "idle"]
    /\ timeline = <<>>
    /\ final_plan = [kind |-> "NoCall", visits |-> <<>>]
    /\ called_on = <<>>
    /\ observations = <<>>
    /\ last_call = [called |-> FALSE, plans |-> [s \in {"GN", "GS"} |-> <<>>], sites |-> {},
                    end_timeslot_bounds |-> [none |-> TRUE], before |-> <<>>]
    /\ visit_log = <<>>
    /\ max_jobs = 1
    /\ jobs = <<>>
    /\ job_counter = 0
    /\ tasks = <<>>
    /\ last_op = [op |-> "none"]
    /\ event_queue = <<>>
    /\ ev_night = [twi_eve_time |-> 0, time_slot_length |-> 1]
    /\ ev_pc = "loading"

\* A Collector processes the timing windows of the observation and
\* calculates its target information (as load_programs does for each
\* observation).
TargetInfoCall(collector) ==
    /\ ti_calls < MaxCalls
    /\ LET timing_windows == ProcessTimingWindows(TheProgram, collector.timing_windows, local_tz)
           r == CalculateTargetInfo(collector, timing_windows, redis)
       IN  /\ redis' = r.redis
           /\ ti_call' = [called |-> TRUE, collector |-> collector,
                          timing_windows |-> timing_windows,
                          target_info |-> r.target_info,
                          cached |-> r.cached]
    /\ ti_calls' = ti_calls + 1
    /\ UNCHANGED <<local_tz, workers>>

CalculateForObservation == \E collector \in Collectors : TargetInfoCall(collector)

TiNext == CalculateForObservation /\ UNCHANGED <<tl_vars, ta_vars, rn_vars, ev_vars, cl_vars, vb_vars, rk_vars, op_vars>>

SpecTargetInfo == TiInit /\ [][TiNext]_vars

----------------------------------------------------------------------------
(* Claims about the target information. *)

\* The nights of the time grid of the last call.
GridOfCall == (ti_call.collector.first)..(ti_call.collector.last)

\* C16: in the map returned by _calculate_target_info, for every night n,
\* rem_visibility_time[n] = visibility_time[n] + rem_visibility_time[n+1]
\* (0 past the last night), also when some nights are read from the cache.
C16_RemVisibilityIsSuffixSum ==
    ti_call.called =>
        \A jday \in GridOfCall :
            ti_call.target_info[jday].rem_visibility_time =
                ti_call.target_info[jday].visibility_time
                + (IF jday = ti_call.collector.last THEN 0
                   ELSE ti_call.target_info[jday + 1].rem_visibility_time)

\* What the last call returns when the cache is empty.
FreshTargetInfo ==
    CalculateTargetInfo(ti_call.collector, ti_call.timing_windows, EmptyRedis).target_info

\* C17: the value stored under a key is the value any computation with that
\* key produces: every TargetInfo that the last call read from the cache
\* equals the one the call would have computed itself.
C17_CachedEqualsComputed ==
    ti_call.called =>
        \A jday \in ti_call.cached :
            ti_call.target_info[jday] = FreshTargetInfo[jday]

\* The sum of a sequence of numbers.
RECURSIVE SumOf(_)
SumOf(seq) == IF seq = <<>> THEN 0 ELSE Head(seq) + SumOf(Tail(seq))

\* C19: for every TargetInfo computed by the last call, visibility_slot_idx
\* has as many entries as visibility_slot_filter has ones, its indices lie
\* in [0, num_slots), are sorted without duplicates, and visibility_time is
\* the number of visible slots times the slot length, whatever the timing
\* windows.
C19_SlotIdxMatchesFilter ==
    ti_call.called =>
        \A jday \in GridOfCall \ ti_call.cached :
            LET ti == ti_call.target_info[jday]
            IN  /\ Len(ti.visibility_slot_idx) = SumOf(ti.visibility_slot_filter)
                /\ \A i \in 1..Len(ti.visibility_slot_idx) :
                      /\ ti.visibility_slot_idx[i] >= 0
                      /\ ti.visibility_slot_idx[i] < ti.num_slots
                /\ \A i \in 1..(Len(ti.visibility_slot_idx) - 1) :
                      ti.visibility_slot_idx[i] < ti.visibility_slot_idx[i + 1]
                /\ ti.visibility_time =
                      SumOf(ti.visibility_slot_filter) * ti_call.collector.time_slot_length

\* The copies i = 0..r-1 of a declared timing window, as C20 states them.
RECURSIVE ClaimedCopies(_, _)
ClaimedCopies(tw, i) ==
    IF i >= tw.repeat THEN <<>>
    ELSE <<  <<tw.start + i * Period(tw), tw.start + i * Period(tw) + tw.duration>>  >>
         \o ClaimedCopies(tw, i + 1)

RECURSIVE ClaimedWindows(_)
ClaimedWindows(declared) ==
    IF declared = <<>> THEN <<>>
    ELSE ClaimedCopies(Head(declared), 0) \o ClaimedWindows(Tail(declared))

\* C20: _process_timing_windows returns the one window [program.start,
\* program.end] when no timing window is declared; otherwise, for each
\* declared window, its repeat copies [start + i*period, start + i*period +
\* duration], i = 0..repeat-1, and nothing else.
C20_WindowsAsDeclared ==
    ti_call.called =>
        ti_call.timing_windows =
            IF ti_call.collector.timing_windows = <<>>
            THEN << <<TheProgram.start, TheProgram.end>> >>
            ELSE ClaimedWindows(ti_call.collector.timing_windows)

----------------------------------------------------------------------------
(* Workers that run _calculate_target_info side by side on one cache. A   *)
(* worker is suspended at its reads and writes of the cache only.         *)

\* The workers.
WorkerIds == {"w1", "w2"}

\* The Collectors of the workers: they differ in their time grid and in the
\* length of their time slots; the observation declares no timing window.
WorkerCollectors ==
    {c \in Collectors : c.timing_windows = <<>> /\ c.remaining = SlotLen}

\* Two workers that have not begun, and an empty cache.
TwInit ==
    /\ redis = EmptyRedis
    /\ workers = [w \in WorkerIds |-> [pc |-> "idle"]]
    /\ programs = <<>>
    /\ observations_per_program = <<>>
    /\ target_info = <<>>
    /\ last_load = [called |-> FALSE]
    /\ ingested = 0
    /\ resets = [count |-> 0]
    /\ ranker = [scored |-> FALSE]
    /\ optimizer = [pc |-> "idle"]
    /\ local_tz = 0
    /\ ti_call = [called |-> FALSE]
    /\ ti_calls = 0
    /\ timeline = <<>>
    /\ final_plan = [kind |-> "NoCall", visits |-> <<>>]
    /\ called_on = <<>>
    /\ observations = <<>>
    /\ last_call = [called |-> FALSE, plans |-> [s \in {"GN", "GS"} |-> <<>>], sites |-> {},
                    end_timeslot_bounds |-> [none |-> TRUE], before |-> <<>>]
    /\ visit_log = <<>>
    /\ max_jobs = 1
    /\ jobs = <<>>
    /\ job_counter = 0
    /\ tasks = <<>>
    /\ last_op = [op |-> "none"]
    /\ event_queue = <<>>
    /\ ev_night = [twi_eve_time |-> 0, time_slot_length |-> 1]
    /\ ev_pc = "loading"

\* Lines 297-300: a worker enters _calculate_target_info.
Begin(w, collector) ==
    /\ workers[w].pc = "idle"
    /\ workers' = [workers EXCEPT ![w] =
          [pc |-> "check", collector |-> collector,
           timing_windows |-> ProcessTimingWindows(TheProgram, collector.timing_windows, local_tz),
           jday |-> collector.last, rem_visibility_time |-> 0,
           ti |-> <<>>, target_info |-> <<>>]]
    /\ UNCHANGED redis

\* Lines 304-313, and 315-445 when the key is not in the cache: the worker
\* asks the cache for the key of its next night; it takes the TargetInfo
\* stored, or else computes one, which it has still to save.
CheckKey(w) ==
    /\ workers[w].pc = "check"
    /\ LET me  == workers[w]
           key == RedisKey(TheObs, me.jday, me.collector)
       IN  IF me.jday < me.collector.first
           THEN workers' = [workers EXCEPT ![w].pc = "done"]
           ELSE IF redis[key] # <<>>
                THEN workers' = [workers EXCEPT
                        ![w].target_info = (me.jday :> redis[key][1]) @@ @,
                        ![w].jday = @ - 1]
                ELSE LET ti == ComputeTargetInfo(me.collector, me.jday,
                                   me.timing_windows, me.rem_visibility_time)
                     IN  workers' = [workers EXCEPT
                            ![w].ti = <<ti>>,
                            ![w].rem_visibility_time = ti.rem_visibility_time,
                            ![w].pc = "set"]
    /\ UNCHANGED redis

\* Lines 446-451: the worker saves the TargetInfo it computed.
SetKey(w) ==
    /\ workers[w].pc = "set"
    /\ LET me  == workers[w]
           key == RedisKey(TheObs, me.jday, me.collector)
       IN  /\ redis' = [redis EXCEPT ![key] = me.ti]
           /\ workers' = [workers EXCEPT
                 ![w].target_info = (me.jday :> me.ti[1]) @@ @,
                 ![w].ti = <<>>,
                 ![w].jday = @ - 1,
                 ![w].pc = "check"]

WorkerBegins == \E w \in WorkerIds : \E collector \in WorkerCollectors : Begin(w, collector)

WorkerChecks == \E w \in WorkerIds : CheckKey(w)

WorkerSets == \E w \in WorkerIds : SetKey(w)

TwNext ==
    \/ WorkerBegins /\ UNCHANGED <<tl_vars, ta_vars, rn_vars, ev_vars, local_tz, ti_call, ti_calls, cl_vars, vb_vars, rk_vars, op_vars>>
    \/ WorkerChecks /\ UNCHANGED <<tl_vars, ta_vars, rn_vars, ev_vars, local_tz, ti_call, ti_calls, cl_vars, vb_vars, rk_vars, op_vars>>
    \/ WorkerSets /\ UNCHANGED <<tl_vars, ta_vars, rn_vars, ev_vars, local_tz, ti_call, ti_calls, cl_vars, vb_vars, rk_vars, op_vars>>

SpecTargetInfoWorkers == TwInit /\ [][TwNext]_vars

\* C18: the cache is written once per key: a payload that has been set
\* under a key is never replaced by a different payload.
C18_WriteOncePerKey ==
    [][\A key \in RedisKeys : redis[key] # <<>> => redis'[key] = redis[key]]_vars

----------------------------------------------------------------------------
(* Collector.load_programs (collector.py, lines 456-561) and the readers   *)
(* of the class-level maps it fills.                                        *)

\* The json programs read in one run, over all the calls of load_programs
\* (a call without data counts for one).
MaxIngested == 3

Semesters == {"2018B", "2019A"}

\* program.semester is None.
NoSemester == "none"

\* obs.base_target() is None.
NoTarget == "none"

\* An Observation of a parsed Program, with the name of its base target.
Obs(id, belongs_to, site, base) == [id |-> id, belongs_to |-> belongs_to, site |-> site, base |-> base]

\* A json program and what the provider makes of it: keys is the number of
\* its top-level keys, parse tells whether parse_program returns a Program
\* ("program"), returns None ("none") or raises ("error"); version tells
\* apart the programs that carry the same ProgramID.
JsonProgram(keys, parse, id, version, semester, awarded, obs) == [keys |-> keys, parse |-> parse, id |-> id, version |-> version, semester |-> semester, awarded |-> awarded, obs |-> obs]

JsonPrograms ==
    { JsonProgram(1, "program", "P1", 1, "2018B", 2,
                  <<Obs("o1", "P1", "GN", "t1"), Obs("o2", "P1", "GS", "t2")>>),
      JsonProgram(1, "program", "P1", 2, "2018B", 1,
                  <<Obs("o3", "P1", "GS", "t3")>>),
      JsonProgram(1, "program", "P2", 1, "2018B", 3,
                  <<Obs("o4", "P2", "GN", NoTarget), Obs("o5", "P2", "GN", "t5")>>),
      JsonProgram(1, "program", "P2", 2, "2018B", 0,
                  <<Obs("o4", "P2", "GN", "t4")>>),
      JsonProgram(1, "program", "P3", 1, "2019A", 1,
                  <<Obs("o6", "P3", "GN", "t6")>>),
      JsonProgram(1, "program", "P3", 2, NoSemester, 1,
                  <<Obs("o6", "P3", "GN", "t6")>>),
      JsonProgram(1, "none", "P1", 3, "2018B", 1, <<>>),
      JsonProgram(1, "error", "P2", 3, "2018B", 1, <<>>),
      JsonProgram(2, "program", "P2", 4, "2018B", 1,
                  <<Obs("o5", "P2", "GN", "t5")>>) }

\* The Collectors that load: their sites and their semesters.
LoadCollectors ==
    { [sites |-> {"GN"}, semesters |-> {"2018B"}],
      [sites |-> {"GN", "GS"}, semesters |-> {"2018B"}],
      [sites |-> {"GN", "GS"}, semesters |-> {"2018B", "2019A"}] }

\* The data of a call: at most n json programs.
DataOf(n) == UNION {[1..k -> JsonPrograms] : k \in 0..n}

\* dict[key] = value.
Put(dict, key, value) == (key :> value) @@ dict

\* dict.get(key, None).
Get(dict, key) == IF key \in DOMAIN dict THEN dict[key] ELSE None

\* Lines 487-493: the json program has not exactly one top-level key, or
\* parse_program raises.
Raises(json_program) == json_program.keys # 1 \/ json_program.parse = "error"

\* Line 505.
SemesterSelected(program, collector) == program.semester # NoSemester /\ program.semester \in collector.semesters

HasAwardedTime_Always(program) == TRUE

\* Line 510: program.program_awarded() is not ZeroTime.
HasAwardedTime(program) == program.awarded # 0

\* Lines 486-512: the program reaches line 518.
Accepted(json_program, collector) ==
    /\ ~Raises(json_program)
    /\ json_program.parse = "program"
    /\ SemesterSelected(json_program, collector)
    /\ HasAwardedTime(json_program)

\* Line 528.
SiteSupportedObs(program, sites) == SelectSeq(program.obs, LAMBDA obs : obs.site \in sites)

IdsOf(obs_list) == {obs_list[i].id : i \in 1..Len(obs_list)}

\* Lines 486-535: one pass of the loop over the data.
ReadProgram(acc, json_program, collector) ==
    IF Raises(json_program)
    THEN [acc EXCEPT !.bad_program_count = @ + 1]
    ELSE IF ~Accepted(json_program, collector)
    THEN acc
    ELSE LET site_supported_obs == SiteSupportedObs(json_program, collector.sites)
         IN  IF site_supported_obs = <<>>
             THEN [acc EXCEPT !.programs = Put(@, json_program.id, json_program)]
             ELSE [acc EXCEPT
                     !.programs = Put(@, json_program.id, json_program),
                     !.observations_per_program = Put(@, json_program.id, IdsOf(site_supported_obs)),
                     !.parsed_observations = @ \o [i \in 1..Len(site_supported_obs) |-> <<json_program.id, site_supported_obs[i]>>]]

NextProgram_StopAtError(i, n, raised) == IF raised THEN n + 1 ELSE i + 1

\* Lines 485, 533-535: after an exception the loop goes on with the next
\* json program.
NextProgram(i, n, raised) == i + 1

RECURSIVE ReadPrograms(_, _, _, _)
ReadPrograms(acc, data, i, collector) ==
    IF i > Len(data)
    THEN acc
    ELSE ReadPrograms(ReadProgram(acc, data[i], collector), data, NextProgram(i, Len(data), Raises(data[i])), collector)

\* Lines 545-561: one pass of the loop over the parsed observations. The
\* program is read back from Collector._programs by its id (line 550); it
\* is there, since the same call stored it.
RecordObservation(acc, program_id, obs) ==
    IF obs.base = NoTarget
    THEN acc
    ELSE [acc EXCEPT
            !.observations = Put(@, obs.id, <<obs, obs.base>>),
            !.target_info = Put(@, <<obs.base, obs.id>>, [program |-> acc.programs[program_id].version])]

RECURSIVE RecordObservations(_, _, _)
RecordObservations(acc, parsed_observations, i) ==
    IF i > Len(parsed_observations)
    THEN acc
    ELSE RecordObservations(RecordObservation(acc, parsed_observations[i][1], parsed_observations[i][2]), parsed_observations, i + 1)

\* Line 476: what is purged before the programs are read.
Purged(state) == [state EXCEPT !.programs = <<>>]

\* Lines 476-561.
LoadProgramsOf(state, collector, data) ==
    LET read == ReadPrograms([programs |-> Purged(state).programs,
                              observations_per_program |-> Purged(state).observations_per_program,
                              parsed_observations |-> <<>>,
                              bad_program_count |-> 0], data, 1, collector)
        rec  == RecordObservations([programs |-> read.programs,
                                    observations |-> Purged(state).observations,
                                    target_info |-> Purged(state).target_info],
                                   read.parsed_observations, 1)
    IN  [programs |-> read.programs,
         observations_per_program |-> read.observations_per_program,
         observations |-> rec.observations,
         target_info |-> rec.target_info,
         bad_program_count |-> read.bad_program_count]

\* Line 177.
get_program(program_id) == Get(programs, program_id)

\* Line 181.
get_all_observations == {observations[o][1] : o \in DOMAIN observations}

\* Lines 191-193, with and without a program id.
get_observation_ids(program_id) == Get(observations_per_program, program_id)

get_all_observation_ids == DOMAIN observations

\* Lines 201-202.
get_observation(obs_id) == IF obs_id \in DOMAIN observations THEN observations[obs_id][1] ELSE None

\* Lines 227-236.
get_target_info(obs_id) ==
    IF obs_id \notin DOMAIN observations
    THEN None
    ELSE Get(target_info, <<observations[obs_id][2], obs_id>>)

\* The class-level maps are empty when the process starts.
ClInit ==
    /\ programs = <<>>
    /\ observations_per_program = <<>>
    /\ observations = <<>>
    /\ target_info = <<>>
    /\ last_load = [called |-> FALSE, loads |-> 0]
    /\ ingested = 0
    /\ resets = [count |-> 0]
    /\ ranker = [scored |-> FALSE]
    /\ optimizer = [pc |-> "idle"]
    /\ timeline = <<>>
    /\ final_plan = [kind |-> "NoCall", visits |-> <<>>]
    /\ called_on = <<>>
    /\ last_call = [called |-> FALSE, plans |-> [s \in {"GN", "GS"} |-> <<>>], sites |-> {},
                    end_timeslot_bounds |-> [none |-> TRUE], before |-> <<>>]
    /\ visit_log = <<>>
    /\ max_jobs = 1
    /\ jobs = <<>>
    /\ job_counter = 0
    /\ tasks = <<>>
    /\ last_op = [op |-> "none"]
    /\ event_queue = <<>>
    /\ ev_night = [twi_eve_time |-> 0, time_slot_length |-> 1]
    /\ ev_pc = "loading"
    /\ redis = <<>>
    /\ local_tz = 0
    /\ ti_call = [called |-> FALSE]
    /\ ti_calls = 0
    /\ workers = <<>>

\* collector.load_programs(program_provider_class, data).
LoadPrograms(collector, data) ==
    /\ ingested + Max(1, Len(data)) <= MaxIngested
    /\ LET r == LoadProgramsOf([programs |-> programs,
                                observations_per_program |-> observations_per_program,
                                observations |-> observations,
                                target_info |-> target_info], collector, data)
       IN  /\ programs' = r.programs
           /\ observations_per_program' = r.observations_per_program
           /\ observations' = r.observations
           /\ target_info' = r.target_info
           /\ last_load' = [called |-> TRUE, loads |-> last_load.loads + 1,
                            collector |-> collector, data |-> data,
                            bad_program_count |-> r.bad_program_count]
    /\ ingested' = ingested + Max(1, Len(data))

Load ==
    /\ ingested < MaxIngested
    /\ \E collector \in LoadCollectors :
          \E data \in DataOf(MaxIngested - ingested) :
              LoadPrograms(collector, data)

ClNext == Load /\ UNCHANGED <<tl_vars, last_call, visit_log, rn_vars, ev_vars, ti_vars, vb_vars, rk_vars, op_vars>>

SpecLoad == ClInit /\ [][ClNext]_vars

----------------------------------------------------------------------------
(* Claims about load_programs. *)

\* The json programs of the last call, by position.
Data == last_load.data

Positions == 1..Len(Data)

\* The program is one of those stored in the Collector.
Stored(json_program) == \E id \in DOMAIN programs : programs[id] = json_program

\* The provider returned None, the semester is missing or not selected, or
\* the awarded time is zero.
Rejected(json_program) ==
    \/ json_program.parse = "none"
    \/ json_program.semester = NoSemester
    \/ json_program.semester \notin last_load.collector.semesters
    \/ json_program.awarded = 0

\* C21: after load_programs, every program stored in the Collector has an
\* awarded time above zero and a semester of the Collector's semesters, and
\* no program of the data for which the provider returned None, whose
\* semester is missing or not selected, or whose awarded time is zero, is
\* stored.
C21_StoredProgramsAwardedAndSelected ==
    last_load.called =>
        /\ \A id \in DOMAIN programs :
              /\ programs[id].awarded > 0
              /\ programs[id].semester \in last_load.collector.semesters
        /\ \A i \in Positions : Rejected(Data[i]) => ~Stored(Data[i])

\* A call whose data holds a program without awarded time, a program of a
\* semester that is not selected and a program that is stored.
C21_Witness ==
    /\ last_load.called
    /\ \E i \in Positions : Data[i].awarded = 0 /\ Data[i].semester \in last_load.collector.semesters
    /\ \E i \in Positions : Data[i].parse = "program" /\ Data[i].semester = "2019A" /\ Data[i].semester \notin last_load.collector.semesters
    /\ \E i \in Positions : Stored(Data[i])

\* The last position of the data at which a program with this id was
\* accepted, and whether an earlier one was accepted too.
AcceptedAt(id) == {i \in Positions : Data[i].id = id /\ Accepted(Data[i], last_load.collector)}

LaterProgram(id) == Data[CHOOSE j \in AcceptedAt(id) : \A i \in AcceptedAt(id) : i <= j]

Repeated(id) == Cardinality(AcceptedAt(id)) >= 2

\* The observation ids recorded for the program.
RecordedIds(id) == IF id \in DOMAIN observations_per_program THEN get_observation_ids(id) ELSE {}

\* The observations recorded that belong to the program.
RecordedObservations(id) == {obs \in get_all_observations : obs.belongs_to = id}

\* C22: when a ProgramID occurs more than once in the data of a call (the
\* first call made, so that nothing is left of an earlier one), get_program
\* returns the later program, and the observation ids and the observations
\* recorded for the program are those of the later program only.
C22_LaterProgramWins ==
    (last_load.called /\ last_load.loads = 1) =>
        \A id \in {"P1", "P2", "P3"} :
            Repeated(id) =>
                /\ get_program(id) = LaterProgram(id)
                /\ RecordedIds(id) = IdsOf(SiteSupportedObs(LaterProgram(id), last_load.collector.sites))
                /\ RecordedObservations(id) \subseteq {LaterProgram(id).obs[k] : k \in 1..Len(LaterProgram(id).obs)}

\* C23: after any sequence of load_programs calls, on Collectors with
\* whatever site sets, every observation retained by the Collector (given
\* by get_all_observations or get_observation_ids) has a site of the
\* Collector that made the latest load.
C23_RetainedObservationsAtLatestSites ==
    last_load.called =>
        /\ \A obs \in get_all_observations : obs.site \in last_load.collector.sites
        /\ \A id \in DOMAIN observations_per_program :
              \A o \in get_observation_ids(id) :
                  \A p \in JsonPrograms : \A k \in 1..Len(p.obs) :
                      (p.id = id /\ p.obs[k].id = o) => p.obs[k].site \in last_load.collector.sites

\* The positions of the data whose program raises while it is parsed.
Failing == {i \in Positions : Raises(Data[i])}

\* The program at position i is accepted and no later program of the data
\* with the same id is.
LastAccepted(i) ==
    /\ Accepted(Data[i], last_load.collector)
    /\ \A j \in Positions : (j > i /\ Data[j].id = Data[i].id) => ~Accepted(Data[j], last_load.collector)

\* C24: a program whose parsing raises is skipped and counted, the load
\* goes on, every other valid program of the data is stored, and the
\* failed program is not stored.
C24_FailedProgramSkippedAndCounted ==
    last_load.called =>
        /\ last_load.bad_program_count = Cardinality(Failing)
        /\ \A i \in Failing : ~Stored(Data[i])
        /\ \A i \in Positions : LastAccepted(i) => get_program(Data[i].id) = Data[i]

\* A call whose data holds a program that raises followed by a valid one,
\* which is stored.
C24_Witness ==
    /\ last_load.called
    /\ \E i \in Failing : \E j \in Positions :
          /\ i < j
          /\ LastAccepted(j)
          /\ get_program(Data[j].id) = Data[j]
    /\ last_load.bad_program_count >= 1

\* The observations of the stored programs of the last call that are at a
\* site of the Collector, without and with a base target.
LoadedObs == UNION {{p.obs[k] : k \in 1..Len(p.obs)} : p \in {Data[i] : i \in {j \in Positions : LastAccepted(j)}}}

Supported(obs) == obs.site \in last_load.collector.sites

\* C25: an observation without base target is skipped by load_programs (the
\* first call made, so that nothing is left of an earlier one):
\* get_observation and get_target_info return None for it, it is not listed
\* by get_observation_ids for its program, and the other observations are
\* still processed.
C25_ObservationWithoutTargetSkipped ==
    (last_load.called /\ last_load.loads = 1) =>
        \A obs \in LoadedObs :
            /\ (Supported(obs) /\ obs.base = NoTarget) =>
                  /\ get_observation(obs.id) = None
                  /\ get_target_info(obs.id) = None
                  /\ obs.id \notin RecordedIds(obs.belongs_to)
            /\ (Supported(obs) /\ obs.base # NoTarget) =>
                  /\ get_observation(obs.id) = obs
                  /\ get_target_info(obs.id) # None

----------------------------------------------------------------------------
(* ValidationBuilder (scheduler/core/builder/builder.py): the reset of the *)
(* observations of the Collector in Validation mode.                        *)

\* Calls of reset_collector_observations in a row.
MaxResets == 2

ObsStatusesToReady_OnlyOngoing == {"ONGOING"}

\* Lines 68-70: _obs_statuses_to_ready.
ObsStatusesToReady == {"ONGOING", "OBSERVED"}

\* Lines 99-103.
ClearAtom(atom) == [atom EXCEPT !.program_used = 0, !.partner_used = 0, !.observed = FALSE, !.qa_state = "NONE"]

ClearedStatus_StepBack(status, obs_statuses_to_ready) == IF status = "OBSERVED" THEN "ONGOING" ELSE IF status = "ONGOING" THEN "READY" ELSE status

\* Lines 105-106.
ClearedStatus(status, obs_statuses_to_ready) == IF status \in obs_statuses_to_ready THEN "READY" ELSE status

\* Lines 98-106: the body of the loop, for one observation.
ClearObservation(o, obs_statuses_to_ready) ==
    [o EXCEPT !.sequence = [i \in 1..Len(o.sequence) |-> ClearAtom(o.sequence[i])],
              !.status = ClearedStatus(o.status, obs_statuses_to_ready)]

\* Lines 80-106, without observation_filter.
ClearObservationInfo(obsmap, obs_statuses_to_ready) ==
    [o \in DOMAIN obsmap |-> ClearObservation(obsmap[o], obs_statuses_to_ready)]

\* The Collector after the programs have been loaded: o1 may have been
\* started in an earlier night.
VbInit ==
    /\ \E class \in {"SCIENCE", "PARTNERCAL", "ACQ"} : \E started \in BOOLEAN :
          /\ observations = IngestedObservations(class, started)
          /\ resets = [count |-> 0, accounted |-> FALSE, by |-> "none",
                       first |-> IngestedObservations(class, started),
                       before |-> IngestedObservations(class, started)]
    /\ last_call = [called |-> FALSE, plans |-> [s \in {"GN", "GS"} |-> <<>>], sites |-> {},
                    end_timeslot_bounds |-> [none |-> TRUE], before |-> <<>>]
    /\ visit_log = <<>>
    /\ programs = <<>>
    /\ observations_per_program = <<>>
    /\ target_info = <<>>
    /\ last_load = [called |-> FALSE]
    /\ ingested = 0
    /\ ranker = [scored |-> FALSE]
    /\ optimizer = [pc |-> "idle"]
    /\ timeline = <<>>
    /\ final_plan = [kind |-> "NoCall", visits |-> <<>>]
    /\ called_on = <<>>
    /\ max_jobs = 1
    /\ jobs = <<>>
    /\ job_counter = 0
    /\ tasks = <<>>
    /\ last_op = [op |-> "none"]
    /\ event_queue = <<>>
    /\ ev_night = [twi_eve_time |-> 0, time_slot_length |-> 1]
    /\ ev_pc = "loading"
    /\ redis = <<>>
    /\ local_tz = 0
    /\ ti_call = [called |-> FALSE]
    /\ ti_calls = 0
    /\ workers = <<>>

\* Lines 109-117: ValidationBuilder.reset_collector_observations(collector),
\* called by caller ("reset_collector_observations" when called directly).
ResetCollectorObservations(caller) ==
    /\ resets.count < MaxResets
    /\ observations' = ClearObservationInfo(observations, ObsStatusesToReady)
    /\ resets' = [count |-> resets.count + 1, accounted |-> resets.accounted, by |-> caller,
                  first |-> IF resets.count = 0 THEN observations ELSE resets.first,
                  before |-> observations]

Reset == ResetCollectorObservations("reset_collector_observations")

\* Lines 119-128: ValidationBuilder.build_collector makes a Collector (which
\* leaves the class-level observations as they are) and resets.
BuildCollector == ResetCollectorObservations("build_collector")

\* Collector.time_accounting for the plans of a night, once in a run.
AccountedNight ==
    /\ ~resets.accounted
    /\ \E plans \in NightPlans(observations) :
          \E sites \in SitesArgs :
              \E end_timeslot_bounds \in BoundsArgs :
                  LET after == TimeAccountingOf(observations, plans, sites, end_timeslot_bounds).obsmap
                  IN  /\ observations' = after
                      /\ resets' = [count |-> 0, accounted |-> TRUE, by |-> "none",
                                    first |-> after, before |-> after]

VbNext ==
    \/ Reset /\ UNCHANGED <<tl_vars, last_call, visit_log, rn_vars, ev_vars, ti_vars, cl_vars, rk_vars, op_vars>>
    \/ BuildCollector /\ UNCHANGED <<tl_vars, last_call, visit_log, rn_vars, ev_vars, ti_vars, cl_vars, rk_vars, op_vars>>
    \/ AccountedNight /\ UNCHANGED <<tl_vars, last_call, visit_log, rn_vars, ev_vars, ti_vars, cl_vars, rk_vars, op_vars>>

SpecValidation == VbInit /\ [][VbNext]_vars

----------------------------------------------------------------------------
(* Claims about the Validation-mode reset. *)

AllAtomsCleared ==
    \A o \in DOMAIN observations : \A i \in 1..Len(observations[o].sequence) :
        LET atom == observations[o].sequence[i]
        IN  atom.program_used = 0 /\ atom.partner_used = 0 /\ atom.observed = FALSE

\* C26: after the Validation-mode ingest (build_collector or
\* reset_collector_observations), every observation of the Collector whose
\* status was ONGOING or OBSERVED has status READY, and every atom of every
\* observation has program_used = partner_used = 0 and observed = false.
C26_ResetToReadyAndZeroed ==
    resets.count >= 1 =>
        /\ \A o \in DOMAIN observations :
              resets.before[o].status \in {"ONGOING", "OBSERVED"} => observations[o].status = "READY"
        /\ AllAtomsCleared

\* A build_collector that found an OBSERVED observation, an ONGOING one and
\* an atom with time used.
C26_Witness ==
    /\ resets.count >= 1
    /\ resets.by = "build_collector"
    /\ \E o \in DOMAIN observations : resets.before[o].status = "OBSERVED"
    /\ \E o \in DOMAIN observations : resets.before[o].status = "ONGOING"
    /\ \E o \in DOMAIN observations : \E i \in 1..Len(resets.before[o].sequence) :
          resets.before[o].sequence[i].program_used > 0 /\ resets.before[o].sequence[i].observed

\* C27: reset_collector_observations sets the times used to zero and the
\* status of all the observations of the Collector to READY, whatever the
\* status was (INACTIVE, set by an earlier time_accounting, included).
C27_AllObservationsReady ==
    resets.count >= 1 =>
        /\ \A o \in DOMAIN observations : observations[o].status = "READY"
        /\ AllAtomsCleared

\* C28: the reset applied twice to the same observations gives the statuses
\* and the atom values that the reset applied once gives.
C28_ResetIdempotent ==
    resets.count >= 2 => observations = resets.before

\* Two resets in a row, the first of which changed a status and an atom.
C28_Witness ==
    /\ resets.count = 2
    /\ \E o \in DOMAIN observations :
          /\ resets.first[o].status # resets.before[o].status
          /\ resets.first[o].sequence # resets.before[o].sequence

----------------------------------------------------------------------------
(* The Ranker (components/ranker/__init__.py): the scores of the           *)
(* observations and of the AND groups. A score is a quotient of integers   *)
(* in lowest terms; the arrays of a night have one entry per time slot     *)
(* (slot t is at position t + 1).                                           *)

\* The nights given to the Ranker (night_indices = 0 .. n - 1) and the
\* observations of a group.
MaxRankNights == 2

MaxChildren == 2

Rat(num, den) == Quotient(num, den)

Zero == Rat(0, 1)

\* The products are taken after the common factors are removed, which keeps
\* the integers small.
RatMul(a, b) ==
    LET x == Quotient(a.num, b.den)
        y == Quotient(b.num, a.den)
    IN  Quotient(x.num * y.num, x.den * y.den)

RatAdd(a, b) ==
    LET g == Gcd(a.den, b.den)
    IN  Quotient(a.num * (b.den \div g) + b.num * (a.den \div g), (a.den \div g) * b.den)

RatLess(a, b) ==
    LET g == Gcd(a.den, b.den)
    IN  a.num * (b.den \div g) < b.num * (a.den \div g)

RatLeq(a, b) ==
    LET g == Gcd(a.den, b.den)
    IN  a.num * (b.den \div g) <= b.num * (a.den \div g)

\* np.max of a list of numbers.
RECURSIVE NpMax(_)
NpMax(x) ==
    IF Len(x) = 1
    THEN x[1]
    ELSE LET rest == NpMax(Tail(x)) IN IF RatLess(x[1], rest) THEN rest ELSE x[1]

\* 0 in x.
HasZero(x) == \E i \in 1..Len(x) : x[i] = Zero

DefaultScoreCombiner_Max(x) == NpMax(x)

\* Lines 12-16: _default_score_combiner, without the array around the value.
DefaultScoreCombiner(x) == IF ~HasZero(x) THEN NpMax(x) ELSE Zero

\* Lines 63-83: _default_band_params. order is the order in which the loop
\* of line 72 goes through the set {BAND3, BAND2, BAND1}, which Python does
\* not fix. The values of m2, b1 and b2 are kept in tenths.
M2Tenths(band) == CASE band = 4 -> 0 [] band = 3 -> 10 [] band = 2 -> 60 [] band = 1 -> 200

Xb == Rat(8, 10)

RECURSIVE BandParamsLoop(_, _, _)
BandParamsLoop(params, order, b1) ==
    IF order = <<>>
    THEN params
    ELSE LET band == Head(order)
             b2   == b1 + 50 - M2Tenths(band)
             m1   == Rat(8 * M2Tenths(band) + 10 * b2, 64)
         IN  BandParamsLoop(Put(params, band, [m1 |-> m1, b1 |-> Rat(b1, 10), m2 |-> Rat(M2Tenths(band), 10), b2 |-> Rat(b2, 10), xb |-> Xb, xb0 |-> Zero, xc0 |-> Zero]),
                            Tail(order), b1 + M2Tenths(band) + b2)

DefaultBandParams(order) ==
    BandParamsLoop(4 :> [m1 |-> Zero, b1 |-> Rat(1, 10), m2 |-> Zero, b2 |-> Zero, xb |-> Xb, xb0 |-> Zero, xc0 |-> Zero], order, 12)

BandOrders == {<<3, 2, 1>>, <<3, 1, 2>>, <<2, 3, 1>>, <<2, 1, 3>>, <<1, 3, 2>>, <<1, 2, 3>>}

\* Line 142.
Eps == Rat(1, 10000000)

\* Line 24.
ThesisFactor == Rat(11, 10)

RatSub(a, b) ==
    LET g == Gcd(a.den, b.den)
    IN  Quotient(a.num * (b.den \div g) - b.num * (a.den \div g), (a.den \div g) * b.den)

\* x ** p for the exponents of RankerParameters.comp_exp.
RatPow(x, p) == IF p = 1 THEN x ELSE RatMul(x, x)

\* Lines 150-155: xb, the Band 3 minimum fraction for Band 3.
MetricXb(band_params, band, b3min) == IF band = 3 THEN b3min ELSE band_params[band].xb

\* Lines 159 and 162: pow == n. The name pow is not bound in _metric_slope
\* nor in the module, so it is the built-in function, equal to no number.
PowEquals(n) == FALSE

\* Lines 157-163: b2, the intercept of the second piece.
InterceptB2(band_params, band, xb) ==
    IF PowEquals(1)
    THEN RatAdd(RatAdd(RatMul(xb, RatSub(band_params[band].m1, band_params[band].m2)), band_params[band].xb0), band_params[band].b1)
    ELSE IF PowEquals(2)
    THEN RatAdd(RatAdd(band_params[band].b2, band_params[band].xb0), band_params[band].b1)
    ELSE Zero

\* Lines 170-171: the metric of the first piece.
FirstSegment(band_params, band, completion, comp_exp) ==
    RatAdd(RatMul(band_params[band].m1, RatPow(completion, comp_exp)), band_params[band].b1)

\* Line 175: the metric of the linear piece.
SecondSegment(band_params, band, completion, b2) ==
    RatAdd(RatMul(band_params[band].m2, completion), b2)

\* Lines 148-182: the metric of _metric_slope for one program.
Metric(band_params, completion, band, b3min, thesis, comp_exp) ==
    LET xb == MetricXb(band_params, band, b3min)
        b2 == InterceptB2(band_params, band, xb)
        metric == IF RatLeq(completion, Eps)
                  THEN Zero
                  ELSE IF RatLess(completion, xb)
                  THEN FirstSegment(band_params, band, completion, comp_exp)
                  ELSE IF RatLess(completion, Rat(1, 1))
                  THEN SecondSegment(band_params, band, completion, b2)
                  ELSE RatAdd(RatAdd(band_params[band].m2, b2), band_params[band].xc0)
    IN  IF thesis THEN RatAdd(metric, ThesisFactor) ELSE metric

\* Lines 32-34 and 227-228: the coefficients, in hundredths.
DecDiffLess40 == <<300, 0, 0 - 8>>

DecDiff == <<300, 10, 0 - 6>>

Coefficients(angle) == IF angle < 40 THEN DecDiffLess40 ELSE DecDiff

Wha_NotClamped(c, ha) == Rat(c[1] + c[2] * ha + c[3] * ha * ha, 100)

\* Lines 230-235: wha for one time slot, set to 0 where it is not positive.
Wha(c, ha) ==
    LET wha == c[1] + c[2] * ha + c[3] * ha * ha
    IN  IF wha <= 0 THEN Zero ELSE Rat(wha, 100)

\* Lines 109-112: the zero scores of a night.
ZeroScores(num_slots) == [t \in 1..num_slots |-> Zero]

\* Lines 237-246 for one night: the scores are p where the slot is in
\* visibility_slot_idx and stay 0 elsewhere.
NightScores(metric, ti, c, num_slots) ==
    [t \in 1..num_slots |->
        IF \E k \in 1..Len(ti.visibility_slot_idx) : ti.visibility_slot_idx[k] = t - 1
        THEN RatMul(RatMul(metric, ti.rem_visibility_frac), Wha(c, ti.hourangle[t]))
        ELSE Zero]

\* Line 212: the Band 3 minimum fraction given to _metric_slope.
B3Min == Rat(8, 10)

\* Lines 186-248: _score_obs. obs.target_info is what Collector.get_target_info
\* gives for the observation: None, or the TargetInfo of each night (the
\* night of index n at position n + 1).
ScoreObs(band_params, program, obs, num_nights, num_slots, comp_exp) ==
    IF obs.target_info.none
    THEN [n \in 1..num_nights |-> ZeroScores(num_slots)]
    ELSE LET cplt   == Rat(program.total_used + obs.remaining, program.total_awarded)
             metric == Metric(band_params, cplt, program.band, B3Min, program.thesis, comp_exp)
             c      == Coefficients(obs.dec_diff)
         IN  [n \in 1..num_nights |-> NightScores(metric, obs.target_info.night[n], c, num_slots)]

\* Lines 285-301: score_and_group, given the scores of the observations of
\* the group (a list by observation of lists by night). obs_scores is the
\* list by night of the tuples by observation (line 285); each group_scores
\* entry starts as an array of 0 rows and len(obs_scores[night_idx]) columns
\* (line 291); the loop of lines 293-296 takes os from obs_scores and
\* appends os[night_idx] to group_scores[night_idx].
ObsScores(scores) == [n \in 1..Len(scores[1]) |-> [k \in 1..Len(scores) |-> scores[k][n]]]

RECURSIVE AppendRows(_, _, _, _, _)
AppendRows(group_scores, obs_scores, width, num_nights, p) ==
    IF p >= Len(obs_scores) * num_nights
    THEN [raised |-> "none", group_scores |-> group_scores]
    ELSE LET os        == obs_scores[(p \div num_nights) + 1]
             night_idx == p % num_nights
         IN  IF night_idx >= Len(os)
             THEN [raised |-> "IndexError", group_scores |-> <<>>]
             ELSE IF Len(os[night_idx + 1]) # width
             THEN [raised |-> "ValueError", group_scores |-> <<>>]
             ELSE AppendRows([group_scores EXCEPT ![night_idx + 1] = Append(@, os[night_idx + 1])],
                             obs_scores, width, num_nights, p + 1)

\* np.apply_along_axis(score_combiner, 0, rows)[0].
CombineColumns(rows, width) == [t \in 1..width |-> DefaultScoreCombiner([r \in 1..Len(rows) |-> rows[r][t]])]

ScoreAndGroup(scores, num_nights) ==
    LET obs_scores == ObsScores(scores)
        width      == Len(obs_scores[1])
        stacked    == AppendRows([n \in 1..num_nights |-> <<>>], obs_scores, width, num_nights, 0)
    IN  IF stacked.raised # "none"
        THEN [called |-> TRUE, raised |-> stacked.raised, scores |-> <<>>]
        ELSE [called |-> TRUE, raised |-> "none",
              scores |-> [n \in 1..num_nights |-> CombineColumns(stacked.group_scores[n], width)]]

\* The programs scored: band, thesis, time used and time awarded (above
\* zero, as load_programs keeps no other).
RankPrograms == [band : 1..4, thesis : BOOLEAN, total_used : {0, 3}, total_awarded : {2, 5}]

\* The hour angle of the target in slot t - 1 (in hours), four hours apart
\* from slot to slot.
HourAngles(first, num_slots) == [t \in 1..num_slots |-> first + 4 * (t - 1)]

AllSlots(num_slots) == [t \in 1..num_slots |-> t - 1]

\* The TargetInfo the Collector holds for an observation and a night: the
\* hour angles, the visible slots and rem_visibility_frac (which the
\* Collector makes from a remaining time and a visibility time that are not
\* negative).
RankTargetInfo(kind, night_idx, num_slots) ==
    CASE kind = "a" -> [hourangle |-> HourAngles(0, num_slots),
                        visibility_slot_idx |-> AllSlots(num_slots),
                        rem_visibility_frac |-> Rat(2, 3)]
      [] kind = "b" -> [hourangle |-> HourAngles(0 - 7, num_slots),
                        visibility_slot_idx |-> SelectSeq(AllSlots(num_slots), LAMBDA t : night_idx > 0 \/ t < num_slots - 1),
                        rem_visibility_frac |-> IF night_idx = 0 THEN Rat(2, 3) ELSE Rat(4, 3)]
      [] kind = "d" -> [hourangle |-> HourAngles(0, num_slots),
                        visibility_slot_idx |-> IF night_idx = 0 THEN <<0>> ELSE <<>>,
                        rem_visibility_frac |-> Rat(1, 1)]

\* The observations scored: "c" has no target info.
RankObservation(kind, num_nights, num_slots) ==
    [kind |-> kind,
     remaining |-> CASE kind = "a" -> 1 [] kind = "b" -> 2 [] kind = "c" -> 1 [] kind = "d" -> 0,
     dec_diff |-> IF kind = "b" THEN 50 ELSE 30,
     target_info |-> IF kind = "c"
                     THEN None
                     ELSE [none |-> FALSE, night |-> [n \in 1..num_nights |-> RankTargetInfo(kind, n - 1, num_slots)]]]

\* RankerParameters.comp_exp (line 27 gives 1; the docstring of
\* _metric_slope names 1, linear, and 2, parabolic).
CompExps == {1, 2}

RankKinds == {"a", "b", "c", "d"}

\* The observations of the group of the program.
ChildrenOf(n) == UNION {[1..k -> RankKinds] : k \in 1..n}

RkInit ==
    /\ ranker = [scored |-> FALSE]
    /\ optimizer = [pc |-> "idle"]
    /\ programs = <<>>
    /\ observations_per_program = <<>>
    /\ target_info = <<>>
    /\ last_load = [called |-> FALSE]
    /\ ingested = 0
    /\ resets = [count |-> 0]
    /\ timeline = <<>>
    /\ final_plan = [kind |-> "NoCall", visits |-> <<>>]
    /\ called_on = <<>>
    /\ observations = <<>>
    /\ last_call = [called |-> FALSE, plans |-> [s \in {"GN", "GS"} |-> <<>>], sites |-> {},
                    end_timeslot_bounds |-> [none |-> TRUE], before |-> <<>>]
    /\ visit_log = <<>>
    /\ max_jobs = 1
    /\ jobs = <<>>
    /\ job_counter = 0
    /\ tasks = <<>>
    /\ last_op = [op |-> "none"]
    /\ event_queue = <<>>
    /\ ev_night = [twi_eve_time |-> 0, time_slot_length |-> 1]
    /\ ev_pc = "loading"
    /\ redis = <<>>
    /\ local_tz = 0
    /\ ti_call = [called |-> FALSE]
    /\ ti_calls = 0
    /\ workers = <<>>

\* Lines 100-120: Ranker.__post_init__ for a Collector with one program,
\* whose observations are those of one AND group.
NewRanker(order, program, num_nights, time_slot_length, children, comp_exp) ==
    /\ ~ranker.scored
    /\ LET num_slots == NumTimeslots(1, time_slot_length)
           obs == [k \in 1..Len(children) |-> RankObservation(children[k], num_nights, num_slots)]
       IN  ranker' = [scored |-> TRUE, order |-> order, program |-> program, comp_exp |-> comp_exp,
                      num_nights |-> num_nights, num_slots |-> num_slots,
                      observations |-> obs,
                      observation_scores |-> [k \in 1..Len(obs) |-> ScoreObs(DefaultBandParams(order), program, obs[k], num_nights, num_slots, comp_exp)],
                      group |-> [called |-> FALSE]]

BuildRanker ==
    /\ ~ranker.scored
    /\ \E order \in BandOrders : \E program \in RankPrograms :
          \E num_nights \in 1..MaxRankNights : \E time_slot_length \in {1, SlotLen} :
              \E children \in ChildrenOf(MaxChildren) : \E comp_exp \in CompExps :
                  NewRanker(order, program, num_nights, time_slot_length, children, comp_exp)

\* Lines 254-301: ranker.score_group(group) for the AND group.
ScoreGroup ==
    /\ ranker.scored
    /\ ~ranker.group.called
    /\ ranker' = [ranker EXCEPT !.group = ScoreAndGroup(ranker.observation_scores, ranker.num_nights)]

RkNext ==
    \/ BuildRanker /\ UNCHANGED <<tl_vars, ta_vars, rn_vars, ev_vars, ti_vars, cl_vars, vb_vars, op_vars>>
    \/ ScoreGroup /\ UNCHANGED <<tl_vars, ta_vars, rn_vars, ev_vars, ti_vars, cl_vars, vb_vars, op_vars>>

SpecRanker == RkInit /\ [][RkNext]_vars

----------------------------------------------------------------------------
(* Claims about the Ranker. *)

\* The scores of the children of the group at slot t - 1 of the night at
\* position n.
ChildScores(n, t) == [k \in 1..Len(ranker.observation_scores) |-> ranker.observation_scores[k][n][t]]

\* 0 if a child score is 0, else the largest child score.
MaxUnlessZero(x) ==
    IF \E k \in 1..Len(x) : x[k].num = 0
    THEN Zero
    ELSE CHOOSE m \in {x[k] : k \in 1..Len(x)} : \A k \in 1..Len(x) : RatLeq(x[k], m)

\* C29: the score of an AND group under the default combiner is, for every
\* night and time slot, 0 if the score of a child at that slot is 0 and
\* else the maximum of the scores of the children at that slot.
C29_GroupScoreMaxUnlessZero ==
    (ranker.scored /\ ranker.group.called /\ ranker.group.raised = "none") =>
        \A n \in 1..ranker.num_nights : \A t \in 1..ranker.num_slots :
            ranker.group.scores[n][t] = MaxUnlessZero(ChildScores(n, t))

\* The visible slots of an observation in the night at position n.
VisibleSlots(obs, n) == {obs.target_info.night[n].visibility_slot_idx[i] : i \in 1..Len(obs.target_info.night[n].visibility_slot_idx)}

C31_SegmentsMeetAtXb ==
    ranker.scored =>
        LET band_params == DefaultBandParams(ranker.order)
            band        == ranker.program.band
            xb          == MetricXb(band_params, band, B3Min)
        IN  FirstSegment(band_params, band, xb, ranker.comp_exp)
                = SecondSegment(band_params, band, xb, InterceptB2(band_params, band, xb))

----------------------------------------------------------------------------
(* The DummyOptimizer (scheduler/core/components/optimizer/dummy.py) and   *)
(* the Plans it fills. Plan and Plans (scheduler/core/plans) are modelled  *)
(* from what the callers use: a Plan has its visits, is_full,              *)
(* _time_slots_left and the number of time slots of its night.             *)

\* The number of time slots of the night of a Plan.
MaxPlanSlots == 4

\* The number of groups of the Selection.
MaxGroups == 3

\* The observations of the groups: site and exec_time in ticks.
OptObservation(id, site, exec_time) == [id |-> id, site |-> site, exec_time |-> exec_time]

\* The GroupData of the Selection; "g5" is an AND group of two observations,
\* the others are observation groups.
GroupData(name) ==
    CASE name = "g1" -> <<OptObservation("o1", "GN", 3)>>
      [] name = "g2" -> <<OptObservation("o2", "GN", 2)>>
      [] name = "g3" -> <<OptObservation("o3", "GS", 4)>>
      [] name = "g4" -> <<OptObservation("o4", "GS", 1)>>
      [] name = "g5" -> <<OptObservation("o1", "GN", 3), OptObservation("o3", "GS", 4)>>

ObservationGroups == {"g1", "g2", "g3", "g4"}

AllGroups == ObservationGroups \cup {"g5"}

\* group.group_info.scores[plans.night]: one for every time slot.
GroupScores(num_slots) == [t \in 1..num_slots |-> 1]

\* np.sum(scores[start:stop]), the slice kept inside the array.
SumSlice(scores, start, stop) ==
    LET lo == IF start < Len(scores) THEN start ELSE Len(scores)
        hi == IF stop < Len(scores) THEN stop ELSE Len(scores)
    IN  IF hi > lo THEN hi - lo ELSE 0

\* Plan(...) as Plans makes it for a night of num_slots time slots.
NewPlan(num_slots) == [visits |-> <<>>, is_full |-> FALSE, time_slots_left |-> num_slots, num_slots |-> num_slots]

\* Plan.time_left.
TimeLeft(plan) == plan.time_slots_left

\* observation in plan.
InPlan(plan, observation) == \E i \in 1..Len(plan.visits) : plan.visits[i].obs_id = observation.id

\* Plan.add: the visit is appended and its time slots are taken from the
\* time slots left.
PlanAdd(plan, observation, start, start_time_slot, time_slots, score) ==
    [plan EXCEPT !.visits = Append(@, [obs_id |-> observation.id, start_time |-> start,
                                       start_time_slot |-> start_time_slot, time_slots |-> time_slots,
                                       score |-> score]),
                 !.time_slots_left = @ - time_slots]

\* Plans.all_done.
AllDone(plans) == \A site \in DOMAIN plans : plans[site].is_full

\* Lines 25-38: _allocate_time. start is in ticks after plan.start.
AllocateTime(plan) ==
    IF Len(plan.visits) > 0
    THEN LET last == plan.visits[Len(plan.visits)]
         IN  [start |-> last.start_time + last.time_slots * SlotLen,
              start_time_slot |-> last.start_time_slot + last.time_slots + 1]
    ELSE [start |-> 0, start_time_slot |-> 0]

\* Lines 71-85: the loop of add from the observation at position i. The
\* result is what add returns: "True", "False", or "None" when the loop ends
\* without a return.
RECURSIVE AddLoop(_, _, _)
AddLoop(obs, i, plans) ==
    IF i > Len(obs)
    THEN [result |-> "None", plans |-> plans]
    ELSE LET observation == obs[i]
             plan        == plans[observation.site]
         IN  IF ~plan.is_full
             THEN LET obs_len == time2slots(SlotLen, observation.exec_time)
                  IN  IF TimeLeft(plan) >= obs_len /\ ~InPlan(plan, observation)
                      THEN LET at    == AllocateTime(plan)
                               score == SumSlice(GroupScores(plan.num_slots), at.start_time_slot, at.start_time_slot + obs_len)
                           IN  [result |-> "True",
                                plans |-> [plans EXCEPT ![observation.site] = PlanAdd(plan, observation, at.start, at.start_time_slot, obs_len, score)]]
                      ELSE [result |-> "False", plans |-> [plans EXCEPT ![observation.site].is_full = TRUE]]
             ELSE AddLoop(obs, i + 1, plans)

\* Lines 64-85: add(group, plans).
AddOf(group, plans) == AddLoop(GroupData(group), 1, plans)

\* Line 51 after line 48: the groups left after the iteration of _run that
\* took ran_group.
GroupsAfter(groups, ran_group, result) == IF result = "True" THEN groups \ {ran_group} ELSE groups

\* Line 45: the condition of the loop of _run.
RunGoesOn(plans, groups) == ~AllDone(plans) /\ groups # {}

OpInit ==
    /\ optimizer = [pc |-> "idle"]
    /\ ranker = [scored |-> FALSE]
    /\ programs = <<>>
    /\ observations_per_program = <<>>
    /\ target_info = <<>>
    /\ last_load = [called |-> FALSE]
    /\ ingested = 0
    /\ resets = [count |-> 0]
    /\ timeline = <<>>
    /\ final_plan = [kind |-> "NoCall", visits |-> <<>>]
    /\ called_on = <<>>
    /\ observations = <<>>
    /\ last_call = [called |-> FALSE, plans |-> [s \in {"GN", "GS"} |-> <<>>], sites |-> {},
                    end_timeslot_bounds |-> [none |-> TRUE], before |-> <<>>]
    /\ visit_log = <<>>
    /\ max_jobs = 1
    /\ jobs = <<>>
    /\ job_counter = 0
    /\ tasks = <<>>
    /\ last_op = [op |-> "none"]
    /\ event_queue = <<>>
    /\ ev_night = [twi_eve_time |-> 0, time_slot_length |-> 1]
    /\ ev_pc = "loading"
    /\ redis = <<>>
    /\ local_tz = 0
    /\ ti_call = [called |-> FALSE]
    /\ ti_calls = 0
    /\ workers = <<>>

\* Lines 55-62: setup(selection), which keeps the observation groups of the
\* Selection, and the Plans of the night made for the two sites
\* (optimizer/__init__.py, line 25). self.groups holds each group once and is
\* kept as a set.
Setup ==
    /\ optimizer.pc = "idle"
    /\ \E selection \in SUBSET AllGroups : \E slots \in [Sites -> 1..MaxPlanSlots] :
          /\ Cardinality(selection) <= MaxGroups
          /\ optimizer' = [pc |-> "ready",
                           groups |-> selection \cap ObservationGroups,
                           plans |-> [site \in Sites |-> NewPlan(slots[site])],
                           last |-> [op |-> "setup"]]

\* A call of add(group, plans) from outside _run.
AddGroup ==
    /\ optimizer.pc = "ready"
    /\ \E group \in AllGroups :
          LET r == AddOf(group, optimizer.plans)
          IN  optimizer' = [optimizer EXCEPT !.plans = r.plans,
                                             !.last = [op |-> "add", group |-> group, result |-> r.result,
                                                       plans_before |-> optimizer.plans, groups_before |-> optimizer.groups]]

\* Lines 45-53: one iteration of the loop of _run; random.choice takes any
\* of the groups.
RunIteration ==
    /\ optimizer.pc \in {"ready", "running"}
    /\ RunGoesOn(optimizer.plans, optimizer.groups)
    /\ \E ran_group \in optimizer.groups :
          LET r == AddOf(ran_group, optimizer.plans)
          IN  optimizer' = [optimizer EXCEPT !.pc = "running",
                                             !.plans = r.plans,
                                             !.groups = GroupsAfter(optimizer.groups, ran_group, r.result),
                                             !.last = [op |-> "run", group |-> ran_group, result |-> r.result,
                                                       plans_before |-> optimizer.plans, groups_before |-> optimizer.groups]]

\* Line 45: the loop of _run ends.
RunReturns ==
    /\ optimizer.pc \in {"ready", "running"}
    /\ ~RunGoesOn(optimizer.plans, optimizer.groups)
    /\ optimizer' = [optimizer EXCEPT !.pc = "done"]

OpNext ==
    \/ Setup /\ UNCHANGED <<tl_vars, ta_vars, rn_vars, ev_vars, ti_vars, cl_vars, vb_vars, rk_vars>>
    \/ AddGroup /\ UNCHANGED <<tl_vars, ta_vars, rn_vars, ev_vars, ti_vars, cl_vars, vb_vars, rk_vars>>
    \/ RunIteration /\ UNCHANGED <<tl_vars, ta_vars, rn_vars, ev_vars, ti_vars, cl_vars, vb_vars, rk_vars>>
    \/ RunReturns /\ UNCHANGED <<tl_vars, ta_vars, rn_vars, ev_vars, ti_vars, cl_vars, vb_vars, rk_vars>>

SpecOptimizer == OpInit /\ [][OpNext]_vars

----------------------------------------------------------------------------
(* Claims about the DummyOptimizer. *)

\* C32: every plan filled by add keeps its visits in increasing order of
\* start_time_slot with no overlap, and every visit ends within the time
\* slots of the night of the plan.
C32_VisitsOrderedAndInsideNight ==
    optimizer.pc # "idle" =>
        \A site \in Sites :
            LET plan == optimizer.plans[site]
            IN  /\ SortedNoOverlap(plan.visits)
                /\ \A i \in 1..Len(plan.visits) : VisitEnd(plan.visits[i]) <= plan.num_slots

\* C39: every iteration of the loop of _run either removes the group it took
\* from the pending groups or marks as full a plan that was not full, so the
\* loop comes to its end.
C39_EachIterationProgresses ==
    (optimizer.pc # "idle" /\ optimizer.last.op = "run") =>
        \/ optimizer.groups = optimizer.last.groups_before \ {optimizer.last.group}
        \/ \E site \in Sites :
              ~optimizer.last.plans_before[site].is_full /\ optimizer.plans[site].is_full

----------------------------------------------------------------------------
(* The NightlyTimeline over several nights and sites                       *)
(* (scheduler/core/eventsqueue/nightchanges.py): timeline is the dict by   *)
(* night index of the dicts by site of the lists of entries. A dict is the *)
(* list of its items in insertion order, which is the order in which       *)
(* Python iterates over it and json.dumps writes it.                       *)

\* Largest number of entries added to the timeline.
MaxAdds == 2

\* k in d
DictHas(d, k) == \E i \in 1..Len(d) : d[i].key = k

\* d[k]
DictGet(d, k) == d[CHOOSE i \in 1..Len(d) : d[i].key = k].value

\* d[k] = v
DictSet(d, k, v) ==
    IF DictHas(d, k)
    THEN [i \in 1..Len(d) |-> IF d[i].key = k THEN [key |-> k, value |-> v] ELSE d[i]]
    ELSE Append(d, [key |-> k, value |-> v])

\* d.setdefault(k, default): the dict afterwards.
SetDefault(d, k, default) == IF DictHas(d, k) THEN d ELSE Append(d, [key |-> k, value |-> default])

\* events.py, lines 13-20: an Event has the fields start, reason and site.
Event(start, site) == [start |-> start, reason |-> "event", site |-> site]

\* Lines 45-48 of nightchanges.py: the timeline after add has put the entry
\* in the list of (night_idx, site).
AddToTimeline(tl, night_idx, site, entry) ==
    LET with_night == SetDefault(tl, night_idx, <<>>)
        by_site    == SetDefault(DictGet(with_night, night_idx), site, <<>>)
        entries    == AppendEntry(DictGet(by_site, site), entry)
    IN  DictSet(with_night, night_idx, DictSet(by_site, site, entries))

\* The entries of the timeline with their night, their site and their
\* place in the list.
TimelineCalls(tl) ==
    UNION { UNION { { [night_idx |-> tl[n].key, site |-> tl[n].value[s].key, pos |-> e, entry |-> tl[n].value[s].value[e]] :
                        e \in 1..Len(tl[n].value[s].value) } :
                    s \in 1..Len(tl[n].value) } :
            n \in 1..Len(tl) }

\* Lines 51-54: get_final_plan raises RuntimeError.
NotInTimeline(tl, night_idx, site) ==
    \/ ~DictHas(tl, night_idx)
    \/ ~DictHas(DictGet(tl, night_idx), site)

\* Lines 50-98: get_final_plan(night_idx, site): what it returns or raises,
\* and the timeline afterwards.
GetFinalPlanAt(tl, night_idx, site) ==
    IF NotInTimeline(tl, night_idx, site)
    THEN [result |-> [kind |-> "RuntimeError", visits |-> <<>>], timeline |-> tl]
    ELSE LET by_site == DictGet(tl, night_idx)
             r       == GetFinalPlanOf(DictGet(by_site, site))
         IN  [result |-> r.result, timeline |-> DictSet(tl, night_idx, DictSet(by_site, site, r.entries))]

\* getattr(obj, name) exists.
HasAttr(obj, name) == name \in DOMAIN obj

\* strftime('%Y-%m-%d %H:%M'): times are in half minutes, the text has the
\* minute.
Strftime(time) == time \div 2

\* Lines 123-150: the JSON object of an entry; event.time and
\* event.description are read first.
EntryToJson(te) ==
    IF ~HasAttr(te.event, "time") \/ ~HasAttr(te.event, "description")
    THEN [raised |-> "AttributeError"]
    ELSE [raised |-> "none",
          startTimeSlot |-> te.start_time_slot,
          event |-> [site |-> te.event.site, time |-> Strftime(te.event.time), description |-> te.event.description],
          plan |-> [empty |-> ~te.plan_generated.gen,
                    visits |-> [i \in 1..Len(te.plan_generated.visits) |->
                                   [starTime |-> te.plan_generated.visits[i].start_time_slot,
                                    endTime |-> VisitEnd(te.plan_generated.visits[i])]]]]

\* Lines 120-154: to_json. The output is the JSON text, kept as the lists of
\* the items in the order in which they are written.
ToJson(tl) ==
    LET json == [n \in 1..Len(tl) |->
                    [key |-> tl[n].key,
                     value |-> [s \in 1..Len(tl[n].value) |->
                                   [key |-> tl[n].value[s].key,
                                    value |-> [e \in 1..Len(tl[n].value[s].value) |-> EntryToJson(tl[n].value[s].value[e])]]]]]
    IN  IF \E c \in TimelineCalls(tl) : EntryToJson(c.entry).raised # "none"
        THEN [kind |-> "to_json", raised |-> "AttributeError", output |-> <<>>]
        ELSE [kind |-> "to_json", raised |-> "none", output |-> json]

\* The nights, sites and event times of the entries added, and the plans
\* generated at a time slot: none, or a plan with one visit of two slots.
TimelineNights == {0, 1}

TimelineStarts == {0, 1, 2}

TimelinePlans(e, time_slot) == {NoPlan, PlanOf(VisitsOfEntry(e, <<[start_time_slot |-> time_slot, time_slots |-> 2]>>))}

NtInit ==
    /\ timeline = <<>>
    /\ final_plan = [kind |-> "NoCall", visits |-> <<>>]
    /\ called_on = <<>>
    /\ observations = <<>>
    /\ last_call = [called |-> FALSE, plans |-> [s \in {"GN", "GS"} |-> <<>>], sites |-> {},
                    end_timeslot_bounds |-> [none |-> TRUE], before |-> <<>>]
    /\ visit_log = <<>>
    /\ max_jobs = 1
    /\ jobs = <<>>
    /\ job_counter = 0
    /\ tasks = <<>>
    /\ last_op = [op |-> "none"]
    /\ event_queue = <<>>
    /\ ev_night = [twi_eve_time |-> 0, time_slot_length |-> 1]
    /\ ev_pc = "loading"
    /\ redis = <<>>
    /\ local_tz = 0
    /\ ti_call = [called |-> FALSE]
    /\ ti_calls = 0
    /\ workers = <<>>
    /\ programs = <<>>
    /\ observations_per_program = <<>>
    /\ target_info = <<>>
    /\ last_load = [called |-> FALSE]
    /\ ingested = 0
    /\ resets = [count |-> 0]
    /\ ranker = [scored |-> FALSE]
    /\ optimizer = [pc |-> "idle"]

\* Lines 39-48: add(night_idx, site, time_slot, event, plan_generated), with
\* the time slot of the event (the evening twilight at 0, time slots of one
\* tick).
TimelineAdd ==
    /\ Cardinality(TimelineCalls(timeline)) < MaxAdds
    /\ \E night_idx \in TimelineNights : \E site \in Sites : \E start \in TimelineStarts :
          LET time_slot == to_timeslot_idx(start, 0, 1)
          IN  \E plan_generated \in TimelinePlans(Cardinality(TimelineCalls(timeline)) + 1, time_slot) :
                 timeline' = AddToTimeline(timeline, night_idx, site,
                                           [start_time_slot |-> time_slot, event |-> Event(start, site),
                                            plan_generated |-> plan_generated])
    /\ final_plan' = [kind |-> "NoCall", visits |-> <<>>]
    /\ called_on' = <<>>

\* get_final_plan(night_idx, site).
TimelineGetFinalPlan ==
    \E night_idx \in TimelineNights : \E site \in Sites :
        LET r == GetFinalPlanAt(timeline, night_idx, site)
        IN  /\ final_plan' = [kind |-> r.result.kind, visits |-> r.result.visits, night_idx |-> night_idx, site |-> site]
            /\ timeline' = r.timeline
            /\ called_on' = timeline

\* to_json().
TimelineToJson ==
    /\ final_plan' = ToJson(timeline)
    /\ called_on' = timeline
    /\ UNCHANGED timeline

NtNext ==
    \/ TimelineAdd /\ UNCHANGED <<ta_vars, rn_vars, ev_vars, ti_vars, cl_vars, vb_vars, rk_vars, op_vars>>
    \/ TimelineGetFinalPlan /\ UNCHANGED <<ta_vars, rn_vars, ev_vars, ti_vars, cl_vars, vb_vars, rk_vars, op_vars>>
    \/ TimelineToJson /\ UNCHANGED <<ta_vars, rn_vars, ev_vars, ti_vars, cl_vars, vb_vars, rk_vars, op_vars>>

SpecNightlyTimeline == NtInit /\ [][NtNext]_vars

----------------------------------------------------------------------------
(* Claims about the NightlyTimeline over nights and sites. *)

\* The timelines made of the same entries as tl, added in any order.
RECURSIVE BuildTimeline(_, _)
BuildTimeline(calls, i) ==
    IF i = 0 THEN <<>>
    ELSE AddToTimeline(BuildTimeline(calls, i - 1), calls[i].night_idx, calls[i].site, calls[i].entry)

SameEntries(tl) ==
    LET calls == TimelineCalls(tl)
        n     == Cardinality(calls)
    IN  { BuildTimeline(order, n) : order \in { f \in [1..n -> calls] : \A i, j \in 1..n : f[i] = f[j] => i = j } }

DistinctTimestamps(tl) ==
    \A a, b \in TimelineCalls(tl) : a # b => a.entry.event.start # b.entry.event.start

\* C33: to_json gives the same output for a timeline and for any timeline
\* made of the same entries, with pairwise distinct event timestamps, added
\* in another order.
C33_ToJsonSameForAnyOrder ==
    (final_plan.kind = "to_json" /\ DistinctTimestamps(called_on)) =>
        \A other \in SameEntries(called_on) :
            other # called_on =>
                /\ final_plan.raised = "none"
                /\ ToJson(other) = final_plan

\* The entries of (night_idx, site) in the timeline.
EntriesAt(tl, night_idx, site) == { c \in TimelineCalls(tl) : c.night_idx = night_idx /\ c.site = site }

\* The entries of the timeline, each with its night, site and place, its
\* time slot, its event and the Visit objects of its plan, and the order of
\* the nights and of the sites.
EntriesIn(tl) ==
    [keys |-> [n \in 1..Len(tl) |-> [key |-> tl[n].key, sites |-> [s \in 1..Len(tl[n].value) |-> tl[n].value[s].key]]],
     entries |-> { [night_idx |-> c.night_idx, site |-> c.site, pos |-> c.pos,
                    start_time_slot |-> c.entry.start_time_slot, event |-> c.entry.event,
                    gen |-> c.entry.plan_generated.gen,
                    visits |-> [i \in 1..Len(c.entry.plan_generated.visits) |->
                                   [entry |-> c.entry.plan_generated.visits[i].entry,
                                    start_time_slot |-> c.entry.plan_generated.visits[i].start_time_slot]]] :
                   c \in TimelineCalls(tl) }]

\* C40: get_final_plan raises RuntimeError when the night or the site has no
\* entries in the timeline, returns None when no entry of the night and
\* site has a generated plan, and a plan otherwise; it adds, removes and
\* reorders no entry of the timeline.
C40_GetFinalPlanRaisesOrReturns ==
    final_plan.kind \in {"RuntimeError", "None", "Plan"} =>
        LET at == EntriesAt(called_on, final_plan.night_idx, final_plan.site)
        IN  /\ at = {} => final_plan.kind = "RuntimeError"
            /\ (at # {} /\ \A c \in at : ~c.entry.plan_generated.gen) => final_plan.kind = "None"
            /\ (\E c \in at : c.entry.plan_generated.gen) => final_plan.kind = "Plan"
            /\ EntriesIn(timeline) = EntriesIn(called_on)

\* get_final_plan has returned a plan after it cut a visit of an earlier
\* entry of the night and site.
C40_Witness ==
    /\ final_plan.kind = "Plan"
    /\ timeline # called_on
    /\ Cardinality(EntriesAt(called_on, final_plan.night_idx, final_plan.site)) >= 2

\* The jobs whose process is running.
RunningJobs == { seq \in 0..(job_counter - 1) : tasks[seq + 1].result = "RUNNING" }

\* The jobs of the list js.
JobsIn(js) == { js[i] : i \in 1..Len(js) }

\* C34: when a job ends with a result other than TERMINATED, terminated_job
\* removes that job from jobs and leaves every other job in the list, in
\* its place; every process that is running is a job of the list, and no
\* more than max_jobs processes are running.
C34_EndedJobRemovedRunningTracked ==
    /\ (last_op.op = "terminated_job" /\ last_op.result # "TERMINATED") =>
          last_op.after = SelectSeq(last_op.before, LAMBDA seq : seq # last_op.job)
    /\ RunningJobs \subseteq JobsIn(jobs)
    /\ Cardinality(RunningJobs) <= max_jobs

\* C35: after time_accounting an observation has the status OBSERVED only
\* if every atom of its sequence is marked observed.
C35_ObservedOnlyIfAllAtomsObserved ==
    last_call.called =>
        \A o \in ObsIds :
            observations[o].status = "OBSERVED" =>
                \A i \in 1..Len(observations[o].sequence) : observations[o].sequence[i].observed

\* The atom at position i of observation o got program or partner time, or
\* not_charged time, in the accounting pass.
GotChargedTime(o, i) ==
    \/ observations[o].sequence[i].program_used # last_call.before[o].sequence[i].program_used
    \/ observations[o].sequence[i].partner_used # last_call.before[o].sequence[i].partner_used

GotNotChargedTime(o, i) ==
    observations[o].sequence[i].not_charged # last_call.before[o].sequence[i].not_charged

\* C36: for every group of visits accounted, with any bound or none, the
\* group is not both charged and routed to not_charged, and no atom gets
\* program or partner time and not_charged time in the same pass.
C36_ChargedAndNotChargedExclusive ==
    last_call.called =>
        /\ \A k \in 1..Len(visit_log) : ~(visit_log[k].charge_group /\ visit_log[k].not_charged)
        /\ \A o \in ObsIds : \A i \in 1..Len(observations[o].sequence) :
              ~(GotChargedTime(o, i) /\ GotNotChargedTime(o, i))

\* One pass in which a group was charged and another was routed to
\* not_charged, with atoms that got time of each kind.
C36_Witness ==
    /\ last_call.called
    /\ \E k \in 1..Len(visit_log) : visit_log[k].charge_group
    /\ \E k \in 1..Len(visit_log) : visit_log[k].not_charged
    /\ \E o \in ObsIds : \E i \in 1..Len(observations[o].sequence) : GotChargedTime(o, i)
    /\ \E o \in ObsIds : \E i \in 1..Len(observations[o].sequence) : GotNotChargedTime(o, i)

\* The groups of visits of the plan of a site accounted by the call, and the
\* bound of the site.
GroupVisitsOfCall(site) ==
    IF site \in last_call.sites
    THEN GroupTheVisits(<<>>, SortedByStart(last_call.plans[site]))
    ELSE <<>>

BoundOfCall(site) == SiteBound(last_call.end_timeslot_bounds, site)

\* C37: time_accounting leaves as they were the status and the atoms of
\* every observation of a group, plain or scheduling, whose first visit
\* starts at or after the end timeslot bound of its site.
C37_GroupAtOrAfterBoundUnchanged ==
    last_call.called =>
        \A site \in Sites : \A g \in 1..Len(GroupVisitsOfCall(site)) :
            LET grpvisit == GroupVisitsOfCall(site)[g]
                bound    == BoundOfCall(site)
            IN  (~bound.none /\ GrpStartTimeSlot(grpvisit) >= bound.slot) =>
                    \A k \in 1..Len(grpvisit.group.obs) :
                        observations[grpvisit.group.obs[k]] = last_call.before[grpvisit.group.obs[k]]

\* The observation is one of the observations of a program now stored in
\* Collector._programs.
InStoredProgram(obs) ==
    \E id \in DOMAIN programs : \E k \in 1..Len(programs[id].obs) : programs[id].obs[k] = obs

\* C38: after any sequence of load_programs calls every observation of
\* Collector._observations is an observation of a program stored in
\* Collector._programs, every program id of
\* Collector._observations_per_program is the id of a stored program, and
\* every observation id listed for a program is found by get_observation.
C38_ClassMapsConsistent ==
    last_load.called =>
        /\ \A obs \in get_all_observations : InStoredProgram(obs)
        /\ \A id \in DOMAIN observations_per_program : id \in DOMAIN programs
        /\ \A id \in DOMAIN observations_per_program :
              \A o \in get_observation_ids(id) : get_observation(o) # None

====
